---- MODULE Spec2Model ----
(***************************************************************************)
(* Model of the statement importer (apps/invoiceninja/import-statements.js)*)
(* and of the invoice matcher that reads the importer's operations index.  *)
(*                                                                         *)
(* Text is modelled at character level.  A JavaScript string is a sequence *)
(* of atoms; an atom is a one-character string ("0", "-", " ", "B") or a   *)
(* fixed chunk of letters standing for itself ("Solde", "Communication").  *)
(* Chunks only occur where the source inspects a whole literal prefix, and *)
(* the accented letters of a statement are written without their accents.  *)
(* Amounts of the importer are integers counting hundredths (1500,00 is    *)
(* 150000); the matcher's own units are stated with its definitions.       *)
(* Array positions keep the source's 0-based numbering.                    *)
(*                                                                         *)
(* A value that the source stores in a local constant and uses several     *)
(* times is passed as a parameter to a helper operator (suffix With, From  *)
(* or At) that models the rest of the function.                            *)
(***************************************************************************)
EXTENDS Integers, Sequences, FiniteSets, TLC

\* ------------------------------------------------------------------------
\* Bounds of the explored input space
\* ------------------------------------------------------------------------
\* lines after the operations header
MaxBody == 3

\* ZIP archives in a batch
MaxZips == 1

\* entries in one ZIP archive
MaxEntries == 2

\* standalone PDF files in a batch
MaxPdfs == 1

\* runs of the importer on one batch
MaxRuns == 2

\* ------------------------------------------------------------------------
\* JavaScript values
\* ------------------------------------------------------------------------
\* null for string-valued fields; never equal to a string of the input
Null == <<"<null>">>

\* null for number-valued fields; a number n is the one-element sequence <<n>>
NullNum == <<>>

Num(n) == <<n>>

\* null for the direction field
NullDirection == "null"

Digits == {"0", "1", "2", "3", "4", "5", "6", "7", "8", "9"}

Upper == {"A", "B", "C", "D", "E", "F", "G", "H", "I", "J", "K", "L", "M",
          "N", "O", "P", "Q", "R", "S", "T", "U", "V", "W", "X", "Y", "Z"}

Lower == {"a", "b", "c", "d", "e", "f", "g", "h", "i", "j", "k", "l", "m",
          "n", "o", "p", "q", "r", "s", "t", "u", "v", "w", "x", "y", "z"}

Space == " "

DigitValue(c) ==
  CASE c = "0" -> 0 [] c = "1" -> 1 [] c = "2" -> 2 [] c = "3" -> 3
    [] c = "4" -> 4 [] c = "5" -> 5 [] c = "6" -> 6 [] c = "7" -> 7
    [] c = "8" -> 8 [] c = "9" -> 9

DigitChar(n) ==
  CASE n = 0 -> "0" [] n = 1 -> "1" [] n = 2 -> "2" [] n = 3 -> "3"
    [] n = 4 -> "4" [] n = 5 -> "5" [] n = 6 -> "6" [] n = 7 -> "7"
    [] n = 8 -> "8" [] n = 9 -> "9"

\* String.prototype.startsWith
StartsWith(s, prefix) ==
  /\ Len(s) >= Len(prefix)
  /\ SubSeq(s, 1, Len(prefix)) = prefix

\* String.prototype.includes
Includes(s, sub) ==
  \E i \in 1..(Len(s) - Len(sub) + 1) : SubSeq(s, i, i + Len(sub) - 1) = sub

\* s.slice(from) with a 1-based first position
Tail1(s, from) == SubSeq(s, from, Len(s))

\* s.slice(-n)
SliceLast(s, n) == IF Len(s) <= n THEN s ELSE Tail1(s, Len(s) - n + 1)

AllIn(s, set) == \A i \in 1..Len(s) : s[i] \in set

\* first position >= pos whose atom is outside set (Len(s)+1 if none)
RECURSIVE SkipWhile(_, _, _)
SkipWhile(s, pos, set) ==
  IF pos > Len(s) THEN pos
  ELSE IF s[pos] \in set THEN SkipWhile(s, pos + 1, set)
  ELSE pos

\* first position >= pos whose atom is in set (Len(s)+1 if none)
RECURSIVE SkipUntil(_, _, _)
SkipUntil(s, pos, set) ==
  IF pos > Len(s) THEN pos
  ELSE IF s[pos] \in set THEN pos
  ELSE SkipUntil(s, pos + 1, set)

\* String.prototype.trim
RECURSIVE TrimEnd(_)
TrimEnd(s) ==
  IF s # <<>> /\ s[Len(s)] = Space THEN TrimEnd(SubSeq(s, 1, Len(s) - 1)) ELSE s

Trim(s) == TrimEnd(Tail1(s, SkipWhile(s, 1, {Space})))

\* s.replace(/[set]/g, '')
RECURSIVE RemoveAll(_, _)
RemoveAll(s, set) ==
  IF s = <<>> THEN <<>>
  ELSE IF s[1] \in set THEN RemoveAll(Tail(s), set)
  ELSE <<s[1]>> \o RemoveAll(Tail(s), set)

\* s.split(sep) for a one-atom separator
RECURSIVE SplitOn(_, _)
SplitOn(s, sep) ==
  IF SkipUntil(s, 1, {sep}) > Len(s) THEN <<s>>
  ELSE <<SubSeq(s, 1, SkipUntil(s, 1, {sep}) - 1)>>
       \o SplitOn(Tail1(s, SkipUntil(s, 1, {sep}) + 1), sep)

\* s.trim().split(/\s+/): the whitespace-separated words of s
RECURSIVE SplitWords(_)
SplitWords(s) ==
  IF Trim(s) = <<>> THEN <<>>
  ELSE <<SubSeq(Trim(s), 1, SkipUntil(Trim(s), 1, {Space}) - 1)>>
       \o SplitWords(Tail1(Trim(s), SkipUntil(Trim(s), 1, {Space})))

\* words.join('')
RECURSIVE JoinWords(_)
JoinWords(words) ==
  IF words = <<>> THEN <<>> ELSE Head(words) \o JoinWords(Tail(words))

\* parseInt(s, 10) of a string of digits
RECURSIVE ParseInt(_)
ParseInt(s) ==
  IF s = <<>> THEN 0
  ELSE 10 * ParseInt(SubSeq(s, 1, Len(s) - 1)) + DigitValue(s[Len(s)])

\* the decimal digits of a non-negative integer (number to string)
RECURSIVE IntToString(_)
IntToString(n) ==
  IF n < 10 THEN <<DigitChar(n)>>
  ELSE IntToString(n \div 10) \o <<DigitChar(n % 10)>>

\* value.toString().padStart(length, '0')
RECURSIVE padLeft(_, _)
padLeft(value, length) ==
  IF Len(value) >= length THEN value ELSE padLeft(<<"0">> \o value, length)

\* Array.prototype.findIndex, given the set of the (1-based) positions whose
\* element passes the test: the first of them, 0-based, or -1
FindIndex(hits) ==
  IF hits = {} THEN -1
  ELSE (CHOOSE i \in hits : \A j \in hits : i <= j) - 1

\* lines[i] for a 0-based i; Null stands for undefined
ItemAt(lines, i) == IF 0 <= i /\ i < Len(lines) THEN lines[i + 1] ELSE Null

\* Array.prototype.find, likewise (Null when absent)
Find(lines, hits) == ItemAt(lines, FindIndex(hits))

\* ------------------------------------------------------------------------
\* Regular expressions and line tests
\* ------------------------------------------------------------------------
IBAN_MIN_LENGTH == 14

NoMatch == [matched |-> FALSE]

\* ISO_DATE_REGEX = /^(\d{2})-(\d{2})-(\d{4})$/
MatchIsoDate(s) ==
  IF /\ Len(s) = 10
     /\ s[3] = "-" /\ s[6] = "-"
     /\ AllIn(SubSeq(s, 1, 2) \o SubSeq(s, 4, 5) \o SubSeq(s, 7, 10), Digits)
  THEN [matched |-> TRUE, day |-> SubSeq(s, 1, 2), month |-> SubSeq(s, 4, 5),
        year |-> SubSeq(s, 7, 10)]
  ELSE NoMatch

\* the rest of VALUE_LINE_REGEX once the date ends before position p1, the
\* amount spans p2..p3-1 and the sign is expected at p4
MatchValueLineWith(s, p1, p2, p3, p4) ==
  IF /\ p2 > p1
     /\ p3 > p2
     /\ p4 = Len(s)
     /\ s[p4] \in {"+", "-"}
  THEN [matched |-> TRUE, day |-> SubSeq(s, 1, 2), month |-> SubSeq(s, 4, 5),
        yearMaybe |-> SubSeq(s, 7, p1 - 1),
        amountString |-> SubSeq(s, p2, p3 - 1), sign |-> s[p4]]
  ELSE NoMatch

AmountStart(s, p1) == SkipWhile(s, p1, {Space})

AmountEnd(s, p1) == SkipWhile(s, AmountStart(s, p1), Digits \cup {".", ","})

SignAt(s, p1) == SkipWhile(s, AmountEnd(s, p1), {Space})

MatchValueLineFrom(s, p1) ==
  MatchValueLineWith(s, p1, AmountStart(s, p1), AmountEnd(s, p1), SignAt(s, p1))

\* the optional group (?:-(\d{4}))? takes part in the match
HasYearGroup(s) ==
  /\ Len(s) >= 10
  /\ s[6] = "-"
  /\ AllIn(SubSeq(s, 7, 10), Digits)

\* VALUE_LINE_REGEX = /^(\d{2})-(\d{2})(?:-(\d{4}))?\s+([\d.,]+)\s*([+-])$/
\* yearMaybe is <<>> when the optional group did not take part in the match
MatchValueLine(s) ==
  IF ~ (/\ Len(s) >= 5
        /\ s[3] = "-"
        /\ AllIn(SubSeq(s, 1, 2) \o SubSeq(s, 4, 5), Digits))
  THEN NoMatch
  ELSE MatchValueLineFrom(s, IF HasYearGroup(s) THEN 11 ELSE 6)

\* /^(0\d{3})\s+(.+)$/
MatchOperation(s) ==
  IF /\ Len(s) >= 6
     /\ s[1] = "0"
     /\ AllIn(SubSeq(s, 2, 4), Digits)
     /\ s[5] = Space
     /\ SkipWhile(s, 5, {Space}) <= Len(s)
  THEN [matched |-> TRUE, sequence |-> SubSeq(s, 1, 4),
        title |-> Tail1(s, SkipWhile(s, 5, {Space}))]
  ELSE NoMatch

\* BIC_REGEX = /^([A-Z]{4}[A-Z0-9]{2}[A-Z0-9]{2,3})$/
MatchBic(s) ==
  /\ Len(s) \in {8, 9}
  /\ AllIn(SubSeq(s, 1, 4), Upper)
  /\ AllIn(Tail1(s, 5), Upper \cup Digits)

\* /^[A-Z]{3}$/
IsCurrencyCode(w) == Len(w) = 3 /\ AllIn(w, Upper)

isPotentialIbanLine(line) ==
  /\ Len(line) >= 4
  /\ AllIn(SubSeq(line, 1, 2), Upper)
  /\ AllIn(SubSeq(line, 3, 4), Digits)
  /\ Len(line) > IBAN_MIN_LENGTH

IsoDateFrom(match) ==
  IF ~ match.matched THEN Null
  ELSE match.year \o <<"-">> \o match.month \o <<"-">> \o match.day

toIsoDate(dateString) ==
  IF dateString = <<>> \/ dateString = Null THEN Null
  ELSE IsoDateFrom(MatchIsoDate(dateString))

\* the fixed prefixes the parser looks for
PfxSolde == <<"Solde", Space>>

PfxDepots == <<"Les", Space, "depots", Space>>

PfxRule == <<"-", "-", Space>>

PfxDots == <<".", ".", ".">>

PfxHeader == <<"No", Space, "Type", Space, "d'operation">>

PfxValeurMontant == <<"Valeur", Space, "Montant">>

PfxBic == <<"BIC", Space>>

PfxExtrait == <<"Extrait", Space, "No">>

StrDate == <<"Date">>

\* ------------------------------------------------------------------------
\* Value lines
\* ------------------------------------------------------------------------
\* the number parseFloat reads from integer digits and fraction digits, in
\* hundredths; NaN (no digit at all) is signalled by -1
ParseFloatValue(intPart, fracPart) ==
  IF intPart = <<>> /\ fracPart = <<>> THEN -1
  ELSE 100 * ParseInt(intPart) + ParseInt(SubSeq(fracPart \o <<"0", "0">>, 1, 2))

\* parseFloat of a string whose leading digits end before position e1
ParseFloatFrom(s, e1) ==
  IF e1 <= Len(s) /\ s[e1] = "."
  THEN ParseFloatValue(SubSeq(s, 1, e1 - 1),
                       SubSeq(s, e1 + 1, SkipWhile(s, e1 + 1, Digits) - 1))
  ELSE ParseFloatValue(SubSeq(s, 1, e1 - 1), <<>>)

\* parseFloat: the longest numeric prefix (the input has no sign or exponent)
parseFloat(s) == ParseFloatFrom(s, SkipWhile(s, 1, Digits))

\* s.replace(',', '.'): the first comma only
ReplaceFirstComma(s) ==
  [i \in 1..Len(s) |-> IF i = SkipUntil(s, 1, {","}) THEN "." ELSE s[i]]

NaNToZero(parsed) == IF parsed = -1 THEN 0 ELSE parsed

\* parseEuropeanNumber, in hundredths; inputs carry at most two decimals
parseEuropeanNumber(raw) ==
  IF raw = <<>> THEN 0
  ELSE NaNToZero(parseFloat(ReplaceFirstComma(RemoveAll(raw, {".", Space}))))

\* faulty variant of InferredYear: the year never rolls over
InferredYearNoRollover(bookingYear, monthDelta) == bookingYear

InferredYear(bookingYear, monthDelta) ==
  IF monthDelta < -6 THEN bookingYear + 1
  ELSE IF monthDelta > 6 THEN bookingYear - 1
  ELSE bookingYear

InferValueDateFrom(day, month, parts) ==
  IntToString(InferredYear(ParseInt(parts[1]), ParseInt(month) - ParseInt(parts[2])))
    \o <<"-">> \o month \o <<"-">> \o day

inferValueDate(day, month, yearMaybe, bookingDate) ==
  IF yearMaybe # <<>> THEN yearMaybe \o <<"-">> \o month \o <<"-">> \o day
  ELSE IF bookingDate # Null
  THEN InferValueDateFrom(day, month, SplitOn(bookingDate, "-"))
  ELSE Null

SignedAmount(sign, numericAmount) ==
  IF sign = "-" THEN -numericAmount ELSE numericAmount

\* faulty variant of DirectionOf: the sign character is ignored
DirectionOfAlwaysCredit(sign) == "credit"

DirectionOf(sign) == IF sign = "-" THEN "debit" ELSE "credit"

ParseValueLineWith(match, bookingDate, currency) ==
  IF ~ match.matched
  THEN [valueDate |-> bookingDate, amount |-> NullNum, currency |-> currency,
        direction |-> NullDirection]
  ELSE [valueDate |-> inferValueDate(match.day, match.month, match.yearMaybe,
                                     bookingDate),
        amount |-> Num(SignedAmount(match.sign, parseEuropeanNumber(match.amountString))),
        currency |-> currency,
        direction |-> DirectionOf(match.sign)]

\* faulty variant of parseValueLine: a missing line forgets the booking date
parseValueLineNoContext(line, bookingDate, currency) ==
  IF MatchValueLine(line).matched
  THEN ParseValueLineWith(MatchValueLine(line), bookingDate, currency)
  ELSE ParseValueLineWith(NoMatch, Null, currency)

\* parseValueLine; a missing line (Null) matches nothing
parseValueLine(line, bookingDate, currency) ==
  ParseValueLineWith(MatchValueLine(line), bookingDate, currency)

\* ------------------------------------------------------------------------
\* Detail lines
\* ------------------------------------------------------------------------
LblExecution == <<"Date", Space, "d'execution">>

LblOperationDate == <<"Date", Space, "de", Space, "l'operation">>

LblCommunication == <<"Communication">>

LblBankReference == <<"Reference", Space, "banque">>

LblOrderReference == <<"Reference", Space, "donneur", Space, "d'ordre">>

\* the text after the first ':' of a line, trimmed ('' without a colon)
InlineValue(line) ==
  IF SkipUntil(line, 1, {":"}) > Len(line) THEN <<>>
  ELSE Trim(Tail1(line, SkipUntil(line, 1, {":"}) + 1))

ConsumeValueWith(lines, startIndex, inlineValue) ==
  IF inlineValue # <<>> THEN [value |-> inlineValue, nextIndex |-> startIndex]
  ELSE IF /\ startIndex + 1 < Len(lines)
          /\ ~ Includes(lines[startIndex + 2], <<":">>)
  THEN [value |-> Trim(lines[startIndex + 2]), nextIndex |-> startIndex + 1]
  ELSE [value |-> <<>>, nextIndex |-> startIndex]

\* consumeValue: the text after ':' on the labelled line, else the next line
\* unless that one carries a ':' of its own.  startIndex/nextIndex are 0-based.
consumeValue(lines, startIndex) ==
  ConsumeValueWith(lines, startIndex, InlineValue(lines[startIndex + 1]))

ParseIbanLineWith(compact, currencyCandidate) ==
  IF Len(compact) < IBAN_MIN_LENGTH THEN [found |-> FALSE]
  ELSE IF ~ (/\ AllIn(SubSeq(compact, 1, 2), Upper)
             /\ AllIn(SubSeq(compact, 3, 4), Digits)
             /\ AllIn(Tail1(compact, 5), Upper \cup Digits))
  THEN [found |-> FALSE]
  ELSE IF IsCurrencyCode(currencyCandidate)
  THEN [found |-> TRUE,
        iban |-> SubSeq(compact, 1, Len(compact) - Len(currencyCandidate)),
        currency |-> currencyCandidate]
  ELSE [found |-> TRUE, iban |-> compact, currency |-> Null]

LastOf(words) == words[Len(words)]

parseIbanLine(line) ==
  ParseIbanLineWith(RemoveAll(line, {Space}), LastOf(SplitWords(line)))

EmptyDetails ==
  [executionDate |-> Null, communication |-> Null, bankReference |-> Null,
   orderReference |-> Null, counterpartyAccount |-> Null,
   counterpartyCurrency |-> Null, counterpartyBic |-> Null,
   residual |-> <<>>]

\* value || fallback
OrElse(value, fallback) == IF value # <<>> /\ value # Null THEN value ELSE fallback

\* one iteration of the for loop of parseDetailLines at 0-based position index:
\* the details so far updated, and the position of the next iteration
DetailStepWith(index, details, line, consumption, ibanParts, bicCandidate) ==
  IF StartsWith(line, LblExecution) \/ StartsWith(line, LblOperationDate)
  THEN [index |-> consumption.nextIndex + 1,
        details |-> [details EXCEPT !.executionDate = toIsoDate(consumption.value)]]
  ELSE IF StartsWith(line, LblCommunication)
  THEN [index |-> consumption.nextIndex + 1,
        details |-> [details EXCEPT !.communication = OrElse(consumption.value, @)]]
  ELSE IF StartsWith(line, LblBankReference)
  THEN [index |-> consumption.nextIndex + 1,
        details |-> [details EXCEPT !.bankReference = OrElse(consumption.value, @)]]
  ELSE IF StartsWith(line, LblOrderReference)
  THEN [index |-> consumption.nextIndex + 1,
        details |-> [details EXCEPT !.orderReference = OrElse(consumption.value, @)]]
  ELSE IF ibanParts.found
  THEN [index |-> index + 1,
        details |-> [details EXCEPT
                       !.counterpartyAccount = ibanParts.iban,
                       !.counterpartyCurrency = OrElse(ibanParts.currency, @)]]
  ELSE IF MatchBic(bicCandidate)
  THEN [index |-> index + 1,
        details |-> [details EXCEPT !.counterpartyBic = bicCandidate]]
  ELSE [index |-> index + 1,
        details |-> [details EXCEPT !.residual = Append(@, line)]]

DetailStep(lines, index, details) ==
  DetailStepWith(index, details, lines[index + 1], consumeValue(lines, index),
                 parseIbanLine(lines[index + 1]), RemoveAll(lines[index + 1], {Space}))

\* the for loop of parseDetailLines from the state after one iteration
RECURSIVE DetailLoopFrom(_, _)
DetailLoopFrom(lines, step) ==
  IF step.index >= Len(lines) THEN step.details
  ELSE DetailLoopFrom(lines, DetailStep(lines, step.index, step.details))

\* the tail of parseDetailLines: residual lines become name, address, rest
ParseDetailLinesWith(details) ==
  [executionDate |-> details.executionDate,
   communication |-> details.communication,
   bankReference |-> details.bankReference,
   orderReference |-> details.orderReference,
   counterpartyAccount |-> details.counterpartyAccount,
   counterpartyCurrency |-> details.counterpartyCurrency,
   counterpartyBic |-> details.counterpartyBic,
   counterpartyName |-> ItemAt(details.residual, 0),
   counterpartyAddress |-> ItemAt(details.residual, 1),
   additionalDetails |-> IF Len(details.residual) >= 3
                         THEN Tail1(details.residual, 3) ELSE <<>>]

parseDetailLines(lines) ==
  ParseDetailLinesWith(DetailLoopFrom(lines, [index |-> 0, details |-> EmptyDetails]))

BuildOperationWith(sequence, title, bookingDate, detailInfo, valueInfo) ==
  [sequence |-> sequence,
   title |-> title,
   bookingDate |-> OrElse(bookingDate, valueInfo.valueDate),
   executionDate |-> detailInfo.executionDate,
   valueDate |-> valueInfo.valueDate,
   amount |-> valueInfo.amount,
   currency |-> valueInfo.currency,
   direction |-> valueInfo.direction,
   communication |-> detailInfo.communication,
   bankReference |-> detailInfo.bankReference,
   orderReference |-> detailInfo.orderReference,
   counterpartyAccount |-> detailInfo.counterpartyAccount,
   counterpartyCurrency |-> detailInfo.counterpartyCurrency,
   counterpartyBic |-> detailInfo.counterpartyBic,
   counterpartyName |-> detailInfo.counterpartyName,
   counterpartyAddress |-> detailInfo.counterpartyAddress,
   additionalDetails |-> detailInfo.additionalDetails]

buildOperation(sequence, title, bookingDate, valueLine, detailLines, currency) ==
  BuildOperationWith(sequence, title, bookingDate, parseDetailLines(detailLines),
                     parseValueLine(valueLine, bookingDate, currency))

\* ------------------------------------------------------------------------
\* Statement metadata
\* ------------------------------------------------------------------------
\* the '.pdf' suffix of a file name is one atom
DotPdf == ".pdf"

ParseAccountLineWith(matches, hasCurrency) ==
  [iban |-> JoinWords(IF hasCurrency THEN SubSeq(matches, 1, Len(matches) - 1)
                      ELSE matches),
   currency |-> IF hasCurrency THEN LastOf(matches) ELSE Null]

ParseAccountWords(matches) ==
  ParseAccountLineWith(matches, IsCurrencyCode(LastOf(matches)))

parseAccountLine(line) == ParseAccountWords(SplitWords(line))

\* /Extrait N°\s+(\d{4})\s*-\s*(\d+)/ with the year at p2, the dash at p3 and
\* the number spanning p4..p5-1
TitleMatchWith(line, p1, p2, p3, p4, p5) ==
  IF /\ p2 > p1
     /\ p2 + 3 <= Len(line)
     /\ AllIn(SubSeq(line, p2, p2 + 3), Digits)
     /\ p3 <= Len(line)
     /\ line[p3] = "-"
     /\ p5 > p4
  THEN [matched |-> TRUE, statementYear |-> SubSeq(line, p2, p2 + 3),
        statementNumber |-> SubSeq(line, p4, p5 - 1)]
  ELSE NoMatch

TitleYearAt(line, p1) == SkipWhile(line, p1, {Space})

TitleDashAt(line, p1) == SkipWhile(line, TitleYearAt(line, p1) + 4, {Space})

TitleNumberAt(line, p1) == SkipWhile(line, TitleDashAt(line, p1) + 1, {Space})

TitleNumberEnd(line, p1) == SkipWhile(line, TitleNumberAt(line, p1), Digits)

\* the regular expression tried at position i
TitleMatchAt(line, i) ==
  IF /\ i + Len(PfxExtrait) - 1 <= Len(line)
     /\ SubSeq(line, i, i + Len(PfxExtrait) - 1) = PfxExtrait
  THEN TitleMatchWith(line, i + Len(PfxExtrait),
                      TitleYearAt(line, i + Len(PfxExtrait)),
                      TitleDashAt(line, i + Len(PfxExtrait)),
                      TitleNumberAt(line, i + Len(PfxExtrait)),
                      TitleNumberEnd(line, i + Len(PfxExtrait)))
  ELSE NoMatch

TitleMatched(line, i) == TitleMatchAt(line, i).matched

ParseStatementTitleWith(match) ==
  [statementNumber |-> match.statementNumber, statementYear |-> match.statementYear]

\* parseStatementTitle: the leftmost match in the line
parseStatementTitle(line) ==
  IF line = Null \/ \A i \in 1..Len(line) : ~ TitleMatched(line, i)
  THEN [statementNumber |-> Null, statementYear |-> Null]
  ELSE ParseStatementTitleWith(
         TitleMatchAt(line, CHOOSE i \in 1..Len(line) :
                              /\ TitleMatched(line, i)
                              /\ \A j \in 1..(i - 1) : ~ TitleMatched(line, j)))

IsBicLine(line) == StartsWith(line, PfxBic)

IsTitleLine(line) == Includes(line, PfxExtrait)

IsOperationsHeader(line) == StartsWith(line, PfxHeader)

\* bicLine ? bicLine.replace('BIC', '').trim() : null
BicOf(bicLine) == IF bicLine # Null THEN Trim(Tail(bicLine)) ELSE Null

ExtractStatementMetaWith(lines, ibanIndex, parsedAccount, title) ==
  [found |-> TRUE,
   account |-> [name |-> ItemAt(lines, ibanIndex - 1),
                iban |-> parsedAccount.iban,
                currency |-> parsedAccount.currency,
                bic |-> BicOf(Find(lines, {i \in 1..Len(lines) : IsBicLine(lines[i])}))],
   statementNumber |-> title.statementNumber,
   statementYear |-> title.statementYear,
   operationsHeaderIndex |->
     FindIndex({i \in 1..Len(lines) : IsOperationsHeader(lines[i])})]

ExtractStatementMetaAt(lines, ibanIndex) ==
  IF ibanIndex = -1 THEN [found |-> FALSE]
  ELSE ExtractStatementMetaWith(lines, ibanIndex,
                                parseAccountLine(lines[ibanIndex + 1]),
                                parseStatementTitle(
                                  Find(lines, {i \in 1..Len(lines) :
                                                 IsTitleLine(lines[i])})))

\* extractStatementMeta; found is FALSE where the source throws
\* 'Unable to locate account IBAN line in statement.'  The balances, which
\* nothing downstream reads, are left out.
extractStatementMeta(lines) ==
  ExtractStatementMetaAt(lines,
    FindIndex({i \in 1..Len(lines) : isPotentialIbanLine(lines[i])}))

\* value.replace(/[^A-Za-z0-9._-]/g, '_')
buildFileSafeName(value) ==
  [i \in 1..Len(value) |->
     IF value[i] \in Upper \cup Lower \cup Digits \cup {".", "_", "-", DotPdf}
     THEN value[i] ELSE "_"]

\* '.pdf' stripped from a base name that is longer than the suffix
StripPdf(base) ==
  IF Len(base) > 1 /\ base[Len(base)] = DotPdf
  THEN SubSeq(base, 1, Len(base) - 1) ELSE base

\* position of the last '/' in p, 0 if none
LastSlash(p) ==
  IF \A i \in 1..Len(p) : p[i] # "/" THEN 0
  ELSE CHOOSE i \in 1..Len(p) : p[i] = "/" /\ \A j \in (i + 1)..Len(p) : p[j] # "/"

\* path.basename(p, '.pdf')
basename(p) == StripPdf(Tail1(p, LastSlash(p) + 1))

\* buildStatementId; every caller supplies originPath, so the timestamp
\* fallback of the source is never taken
buildStatementId(meta, context) ==
  IF meta.statementYear # Null /\ meta.statementNumber # Null
  THEN (IF meta.account.iban # <<>> THEN SliceLast(meta.account.iban, 6)
        ELSE <<"account">>)
       \o <<"-">> \o meta.statementYear \o <<"-">> \o padLeft(meta.statementNumber, 3)
  ELSE IF context.entryName # Null
  THEN buildFileSafeName(basename(context.entryName))
  ELSE buildFileSafeName(basename(context.originPath))

\* ------------------------------------------------------------------------
\* The statement parser as a cursor machine (parseStatement)
\* ------------------------------------------------------------------------
\* A parser state is a record:
\*   pc                  position in parseStatement / extractOperations
\*   lines, context      the normalized lines and the source description
\*   meta                result of extractStatementMeta
\*   index               the cursor (0-based)
\*   currentBookingDate  the running booking-date context
\*   sequence, title, detailLines, valueLine   the operation being read
\*   operations          operations pushed so far
\*   error               message of the thrown error, Null if none
NoMeta == [found |-> FALSE]

ErrNoIban == <<"Unable to locate account IBAN line in statement.">>

ErrNoHeader == <<"Unable to find the operations header in the statement.">>

ParserStart(lines, context) ==
  [pc |-> "meta", lines |-> lines, context |-> context, meta |-> NoMeta,
   index |-> 0, currentBookingDate |-> Null,
   sequence |-> Null, title |-> Null, detailLines |-> <<>>, valueLine |-> Null,
   operations |-> <<>>, error |-> Null]

\* lines[index] of the source; Null stands for undefined
LineAt(st) == ItemAt(st.lines, st.index)

IsFooterLine(line) ==
  StartsWith(line, PfxSolde) \/ StartsWith(line, PfxDepots) \/ StartsWith(line, PfxRule)

IsDetailFooterLine(line) ==
  StartsWith(line, PfxSolde) \/ StartsWith(line, PfxRule)

StepMetaWith(st, meta) ==
  IF ~ meta.found THEN [st EXCEPT !.pc = "failed", !.error = ErrNoIban]
  ELSE [st EXCEPT !.pc = "header", !.meta = meta]

\* parseStatement up to the call of extractOperations
StepMeta(st) == StepMetaWith(st, extractStatementMeta(st.lines))

\* faulty variant of StepHeader: a missing header is let through
StepHeaderLenient(st) ==
  [st EXCEPT !.pc = "skip", !.index = st.meta.operationsHeaderIndex + 1]

\* extractOperations: the header test and the initial cursor
StepHeader(st) ==
  IF st.meta.operationsHeaderIndex = -1
  THEN [st EXCEPT !.pc = "failed", !.error = ErrNoHeader]
  ELSE [st EXCEPT !.pc = "skip", !.index = st.meta.operationsHeaderIndex + 1]

\* one iteration of the column-title skipping loop
StepSkip(st) ==
  IF LineAt(st) = StrDate \/ StartsWith(LineAt(st), PfxValeurMontant)
  THEN [st EXCEPT !.index = @ + 1]
  ELSE [st EXCEPT !.pc = "outer"]

\* faulty variant of StepOuterWith: a '...' line is not consumed
StepOuterWithStalling(st, line, operationMatch) ==
  IF ~ (st.index < Len(st.lines)) THEN [st EXCEPT !.pc = "return"]
  ELSE IF IsFooterLine(line) THEN [st EXCEPT !.pc = "return"]
  ELSE IF StartsWith(line, PfxDots) THEN st
  ELSE IF MatchIsoDate(line).matched
  THEN [st EXCEPT !.currentBookingDate = toIsoDate(line), !.index = @ + 1]
  ELSE IF ~ operationMatch.matched THEN [st EXCEPT !.index = @ + 1]
  ELSE [st EXCEPT !.pc = "detail",
                  !.sequence = operationMatch.sequence,
                  !.title = operationMatch.title,
                  !.index = @ + 1,
                  !.detailLines = <<>>,
                  !.valueLine = Null]

StepOuterWith(st, line, operationMatch) ==
  IF ~ (st.index < Len(st.lines)) THEN [st EXCEPT !.pc = "return"]
  ELSE IF IsFooterLine(line) THEN [st EXCEPT !.pc = "return"]
  ELSE IF StartsWith(line, PfxDots) THEN [st EXCEPT !.index = @ + 1]
  ELSE IF MatchIsoDate(line).matched
  THEN [st EXCEPT !.currentBookingDate = toIsoDate(line), !.index = @ + 1]
  ELSE IF ~ operationMatch.matched THEN [st EXCEPT !.index = @ + 1]
  ELSE [st EXCEPT !.pc = "detail",
                  !.sequence = operationMatch.sequence,
                  !.title = operationMatch.title,
                  !.index = @ + 1,
                  !.detailLines = <<>>,
                  !.valueLine = Null]

\* one iteration of the outer while loop, up to the start of the detail loop
StepOuter(st) == StepOuterWith(st, LineAt(st), MatchOperation(LineAt(st)))

StepDetailWith(st, detailLine) ==
  IF ~ (st.index < Len(st.lines)) THEN [st EXCEPT !.pc = "fallback"]
  ELSE IF IsDetailFooterLine(detailLine) THEN [st EXCEPT !.pc = "fallback"]
  ELSE IF StartsWith(detailLine, PfxDots) THEN [st EXCEPT !.index = @ + 1]
  ELSE IF MatchIsoDate(detailLine).matched
  THEN [st EXCEPT !.currentBookingDate = toIsoDate(detailLine), !.index = @ + 1]
  ELSE IF MatchValueLine(detailLine).matched
  THEN [st EXCEPT !.valueLine = detailLine, !.index = @ + 1, !.pc = "build"]
  ELSE IF MatchOperation(detailLine).matched THEN [st EXCEPT !.pc = "fallback"]
  ELSE [st EXCEPT !.detailLines = Append(@, detailLine), !.index = @ + 1]

\* one iteration of the detail while loop
StepDetail(st) == StepDetailWith(st, LineAt(st))

\* the scan made when the detail loop ended without a value line; normalized
\* lines are never empty, so the scan looks at one line
StepFallback(st) ==
  IF st.index < Len(st.lines) /\ MatchValueLine(LineAt(st)).matched
  THEN [st EXCEPT !.valueLine = LineAt(st), !.index = @ + 1, !.pc = "build"]
  ELSE [st EXCEPT !.pc = "build"]

\* buildOperation and operations.push
StepBuild(st) ==
  [st EXCEPT
     !.operations =
        Append(@, buildOperation(st.sequence, st.title, st.currentBookingDate,
                                 st.valueLine, st.detailLines,
                                 st.meta.account.currency)
                  @@ [rawDetails |-> [detailLines |-> st.detailLines,
                                      valueLine |-> st.valueLine]]),
     !.pc = "outer"]

\* extractOperations returns and parseStatement builds the statement
StepReturn(st) == [st EXCEPT !.pc = "done"]

ParserStep(st) ==
  CASE st.pc = "meta" -> StepMeta(st)
    [] st.pc = "header" -> StepHeader(st)
    [] st.pc = "skip" -> StepSkip(st)
    [] st.pc = "outer" -> StepOuter(st)
    [] st.pc = "detail" -> StepDetail(st)
    [] st.pc = "fallback" -> StepFallback(st)
    [] st.pc = "build" -> StepBuild(st)
    [] st.pc = "return" -> StepReturn(st)

ParserHalted(st) == st.pc \in {"done", "failed"}

RECURSIVE RunParser(_)
RunParser(st) == IF ParserHalted(st) THEN st ELSE RunParser(ParserStep(st))

\* the object parseStatement returns (generatedAt and rawStatementLines, which
\* no later step reads, are left out)
StatementOf(st) ==
  [statementId |-> buildStatementId(st.meta, st.context),
   source |-> [type |-> st.context.source,
               originPath |-> st.context.originPath,
               entryName |-> st.context.entryName],
   account |-> st.meta.account,
   statementNumber |-> st.meta.statementNumber,
   statementYear |-> st.meta.statementYear,
   operations |-> st.operations]

ParseStatementWith(final) ==
  IF final.pc = "failed" THEN [ok |-> FALSE, error |-> final.error]
  ELSE [ok |-> TRUE, statement |-> StatementOf(final)]

\* parseStatement on normalized lines: ok is FALSE where the source throws
parseStatement(lines, context) ==
  ParseStatementWith(RunParser(ParserStart(lines, context)))

\* ------------------------------------------------------------------------
\* Input space: normalized statement lines
\* ------------------------------------------------------------------------
LnIban == <<"B", "E", "6", "8", "5", "3", "9", "0", "0", "7", "5", "4", "7", "0", "3", "4", " ", "E", "U", "R">>

LnIbanNoCurrency == <<"B", "E", "6", "8", "5", "3", "9", "0", "0", "7", "5", "4", "7", "0", "3", "4", " ", "B", "E", "L", "F", "I", "U", "S">>

LnName == <<"ACME", " ", "SRL">>

LnBic == <<"BIC", " ", "G", "K", "C", "C", "B", "E", "B", "B">>

LnTitle == <<"Extrait", " ", "No", " ", "2", "0", "2", "4", " ", "-", " ", "7">>

LnHeader == <<"No", " ", "Type", " ", "d'operation">>

LnDateColumn == <<"Date">>

LnValeurMontant == <<"Valeur", " ", "Montant">>

LnBookingDate == <<"0", "1", "-", "0", "4", "-", "2", "0", "2", "4">>

LnBookingDateDec == <<"1", "5", "-", "1", "2", "-", "2", "0", "2", "3">>

LnOpA == <<"0", "0", "1", "5", " ", "SEPA">>

LnOpB == <<"0", "0", "1", "6", " ", "CARD">>

LnValueCredit == <<"0", "4", "-", "0", "4", " ", "1", "5", "0", "0", ",", "0", "0", " ", "+">>

LnValueZero == <<"0", "4", "-", "0", "4", " ", "0", ",", "0", "0", " ", "+">>

LnValueDebitYear == <<"0", "5", "-", "0", "4", "-", "2", "0", "2", "4", " ", "7", ",", "5", "0", " ", "-">>

LnValueNaN == <<"0", "4", "-", "0", "4", " ", ",", " ", "-">>

LnValueThousands == <<"0", "4", "-", "0", "1", " ", "1", ".", "5", "0", "0", ",", "0", "0", "+">>

LnValueNoSign == <<"0", "4", "-", "0", "4", " ", "1", "5", ",", "0", "0">>

LnCommunication == <<"Communication", ":", " ", "INV", " ", "2", "2", "0", "0", "0", "6">>

LnResidual == <<"ACME">>

LnCounterIban == <<"B", "E", "7", "1", " ", "0", "9", "6", "1", " ", "2", "3", "4", "5", " ", "6", "7", "6", "9", " ", "E", "U", "R">>

LnDots == <<".", ".", ".">>

LnNotOp == <<"1", "0", "1", "5", " ", "SEPA">>

LnShortCode == <<"0", "1", "5", " ", "SEPA">>

LnSoldeActuel == <<"Solde", " ", "actuel", " ", "au", " ", "3", "0", "-", "0", "4", "-", "2", "0", "2", "4", " ", "1", "0", ",", "0", "0", " ", "+">>

LnDepots == <<"Les", " ", "depots", " ", "garantis">>

LnRule == <<"-", "-", " ", "1", " ", "of", " ", "2", " ", "-", "-">>

PathPdfA == <<"in", "/", "a", ".pdf">>

PathPdfB == <<"in", "/", "b", ".pdf">>

PathZip == <<"in", "/", "z", ".", "z", "i", "p">>

EntryA == <<"x", "/", "a", ".pdf">>

EntryB == <<"y", "/", "a", ".pdf">>

\* what precedes the operations table
HeaderVariants ==
  { <<LnIban, LnHeader>>,
    <<LnName, LnIbanNoCurrency, LnBic, LnTitle, LnHeader, LnDateColumn, LnValeurMontant>>,
    <<LnHeader>>,
    <<LnIban>>,
    <<>> }

\* the texts used for the value, detail and footer lines of one document
LineVariants ==
  { [value |-> LnValueCredit, detail |-> LnCommunication, footer |-> LnSoldeActuel],
    [value |-> LnValueZero, detail |-> LnResidual, footer |-> LnDepots],
    [value |-> LnValueDebitYear, detail |-> LnCounterIban, footer |-> LnRule],
    [value |-> LnValueNaN, detail |-> LnDots, footer |-> LnSoldeActuel],
    [value |-> LnValueThousands, detail |-> LnNotOp, footer |-> LnDepots],
    [value |-> LnValueNoSign, detail |-> LnShortCode, footer |-> LnRule],
    [value |-> LnValueCredit, detail |-> LnBookingDateDec, footer |-> LnDepots] }

BodyKinds == {"date", "opA", "opB", "value", "detail", "footer"}

BodyLine(kind, variant) ==
  CASE kind = "date" -> LnBookingDate
    [] kind = "opA" -> LnOpA
    [] kind = "opB" -> LnOpB
    [] kind = "value" -> variant.value
    [] kind = "detail" -> variant.detail
    [] kind = "footer" -> variant.footer

\* all sequences over set of length at most n
SeqsUpTo(set, n) == UNION {[1..k -> set] : k \in 0..n}

Bodies == SeqsUpTo(BodyKinds, MaxBody)

InputLines(header, body, variant) ==
  header \o [i \in 1..Len(body) |-> BodyLine(body[i], variant)]

ContextPdf == [source |-> "pdf", originPath |-> PathPdfA, entryName |-> Null]

ContextZip == [source |-> "zip", originPath |-> PathZip, entryName |-> EntryA]

\* ------------------------------------------------------------------------
\* Input space: batches of source documents and the output directory
\* ------------------------------------------------------------------------
DocA == <<LnName, LnIban, LnTitle, LnHeader, LnBookingDate, LnOpA, LnCommunication, LnValueCredit>>

\* another document carrying the same statement title as DocA
DocA2 == <<LnIban, LnTitle, LnHeader, LnOpB, LnValueDebitYear>>

\* no title line: the statement id comes from the file name
DocB == <<LnIban, LnHeader, LnOpA, LnValueZero>>

DocNoIban == <<LnHeader, LnOpA, LnValueCredit>>

DocNoHeader == <<LnIban, LnOpA, LnValueCredit>>

\* content of a ZIP entry that is not a PDF
NotPdf == <<>>

EntryPool == {DocA, DocNoIban, NotPdf}

PdfPool == {DocA2, DocB, DocNoHeader}

EntryNames == <<EntryA, EntryB, <<"x", "/", "b", DotPdf>> >>

ZipPaths == <<PathZip, <<"in", "/", "y", ".", "z", "i", "p">> >>

PdfPaths == <<PathPdfA, PathPdfB>>

\* a ZIP entry: its name ends in .pdf exactly when it holds a document
ZipEntry(i, content) ==
  [entryName |-> IF content = NotPdf THEN <<"r", ".", "t", "x", "t">> ELSE EntryNames[i],
   isPdf |-> content # NotPdf,
   lines |-> content]

ZipFile(k, contents) ==
  [zipPath |-> ZipPaths[k],
   entries |-> [i \in 1..Len(contents) |-> ZipEntry(i, contents[i])]]

PdfFile(k, content) == [pdfPath |-> PdfPaths[k], lines |-> content]

\* what collectSources can return
Collections ==
  {[zipFiles |-> [k \in 1..Len(zs) |-> ZipFile(k, zs[k])],
    pdfFiles |-> [k \in 1..Len(ps) |-> PdfFile(k, ps[k])]] :
     zs \in SeqsUpTo(SeqsUpTo(EntryPool, MaxEntries), MaxZips),
     ps \in SeqsUpTo(PdfPool, MaxPdfs)}

JsonSuffix == ".json"

\* what reading a missing file gives
Absent == [absent |-> TRUE]

\* an artifact written by an earlier import of other documents
OldArtifact == [statementId |-> <<"old">>, operations |-> <<>>]

StaleIndex ==
  [operations |-> <<[statementId |-> <<"old">>, sequence |-> <<"0", "0", "0", "1">>]>>]

IdOfDocA == <<"5", "4", "7", "0", "3", "4", "-", "2", "0", "2", "4", "-", "0", "0", "7">>

\* path.join(outputDir, 'operations-index.json')
IndexPath == <<"operations-index", JsonSuffix>>

\* the output directory before the first run: a set of [path, content]
InitialFiles ==
  {artifacts \cup index :
     artifacts \in { {}, {[path |-> IdOfDocA \o <<JsonSuffix>>, content |-> OldArtifact]} },
     index \in { {}, {[path |-> IndexPath, content |-> StaleIndex]} }}

\* ------------------------------------------------------------------------
\* File system
\* ------------------------------------------------------------------------
existsSync(fs, path) == \E f \in fs : f.path = path

writeFile(fs, path, content) ==
  {f \in fs : f.path # path} \cup {[path |-> path, content |-> content]}

readFile(fs, path) ==
  IF existsSync(fs, path) THEN (CHOOSE f \in fs : f.path = path).content ELSE Absent

\* ------------------------------------------------------------------------
\* Importer steps
\* ------------------------------------------------------------------------
ErrExists == <<"File already exists. Use --overwrite to replace it.">>

\* statement.source.entryName || statement.source.originPath
SourceNameOf(statement) ==
  OrElse(statement.source.entryName, statement.source.originPath)

\* the target path of writeStatementJson inside the output directory
TargetPathOf(statement) ==
  (IF statement.statementId # <<>> THEN statement.statementId
   ELSE buildFileSafeName(SourceNameOf(statement))) \o <<JsonSuffix>>

WriteStatementJsonAt(fs, statement, overwrite, targetPath) ==
  IF ~ overwrite /\ existsSync(fs, targetPath)
  THEN [written |-> FALSE, error |-> ErrExists, fs |-> fs]
  ELSE [written |-> TRUE, outputPath |-> targetPath,
        fs |-> writeFile(fs, targetPath, statement)]

\* faulty variant of writeStatementJson: the target is never looked at
writeStatementJsonUnguarded(fs, statement, overwrite) ==
  WriteStatementJsonAt(fs, statement, TRUE, TargetPathOf(statement))

\* writeStatementJson: written is FALSE where the source throws
writeStatementJson(fs, statement, overwrite) ==
  WriteStatementJsonAt(fs, statement, overwrite, TargetPathOf(statement))

\* the end of the try block: push the statement, or the failure thrown by the
\* write
ImportWritten(acc, statement, written, failure) ==
  IF ~ written.written
  THEN [acc EXCEPT !.failures = Append(@, failure @@ [error |-> written.error])]
  ELSE [acc EXCEPT !.statements =
                      Append(@, statement @@ [outputPath |-> written.outputPath]),
                   !.fs = written.fs]

\* faulty variant of ImportParsed: the catch block drops the parse error
ImportParsedSilent(acc, parsed, failure, overwrite) ==
  IF ~ parsed.ok THEN acc
  ELSE ImportWritten(acc, parsed.statement,
                     writeStatementJson(acc.fs, parsed.statement, overwrite), failure)

ImportParsed(acc, parsed, failure, overwrite) ==
  IF ~ parsed.ok
  THEN [acc EXCEPT !.failures = Append(@, failure @@ [error |-> parsed.error])]
  ELSE ImportWritten(acc, parsed.statement,
                     writeStatementJson(acc.fs, parsed.statement, overwrite), failure)

\* the try/catch body shared by processZipArchive and processSinglePdf:
\* parse, write, and push either a statement or a failure
\* acc = [statements, failures, fs]
ImportDocument(acc, lines, context, failure, overwrite) ==
  ImportParsed(acc, parseStatement(lines, context), failure, overwrite)

\* one iteration of the entry loop of processZipArchive
ProcessEntry(acc, zipPath, entry, overwrite) ==
  IF ~ entry.isPdf THEN acc
  ELSE ImportDocument(acc, entry.lines,
                      [source |-> "zip", originPath |-> zipPath,
                       entryName |-> entry.entryName],
                      [source |-> "zip", zipPath |-> zipPath,
                       entryName |-> entry.entryName],
                      overwrite)

\* processSinglePdf: returns [statements, failures, fs]
processSinglePdf(fs, pdf, overwrite) ==
  ImportDocument([statements |-> <<>>, failures |-> <<>>, fs |-> fs], pdf.lines,
                 [source |-> "pdf", originPath |-> pdf.pdfPath, entryName |-> Null],
                 [source |-> "pdf", pdfPath |-> pdf.pdfPath],
                 overwrite)

\* the entry emitAggregatedIndex derives from one operation of a statement
IndexEntry(statement, op) ==
  [statementId |-> statement.statementId,
   statementFile |-> statement.outputPath,
   accountIban |-> statement.account.iban,
   accountName |-> statement.account.name,
   statementYear |-> statement.statementYear,
   statementNumber |-> statement.statementNumber,
   sequence |-> op.sequence,
   title |-> op.title,
   bookingDate |-> op.bookingDate,
   executionDate |-> op.executionDate,
   valueDate |-> op.valueDate,
   amount |-> op.amount,
   currency |-> op.currency,
   direction |-> op.direction,
   communication |-> op.communication,
   bankReference |-> op.bankReference,
   orderReference |-> op.orderReference,
   counterpartyAccount |-> op.counterpartyAccount,
   counterpartyBic |-> op.counterpartyBic,
   counterpartyName |-> op.counterpartyName,
   counterpartyAddress |-> op.counterpartyAddress]

IndexEntriesOf(statement) ==
  [i \in 1..Len(statement.operations) |-> IndexEntry(statement, statement.operations[i])]

\* the operations array of emitAggregatedIndex
RECURSIVE IndexOperations(_)
IndexOperations(statements) ==
  IF statements = <<>> THEN <<>>
  ELSE IndexEntriesOf(Head(statements)) \o IndexOperations(Tail(statements))

\* the operations of the index file already present, none if there is none
ExistingIndexOperations(fs) ==
  IF existsSync(fs, IndexPath) THEN readFile(fs, IndexPath).operations ELSE <<>>

\* faulty variant of emitAggregatedIndex: the index is appended to instead of
\* written anew
emitAggregatedIndexMerging(fs, statements) ==
  writeFile(fs, IndexPath,
            [operations |-> ExistingIndexOperations(fs) \o IndexOperations(statements)])

\* emitAggregatedIndex: operations-index.json is written anew (generatedAt, a
\* clock reading, is left out)
emitAggregatedIndex(fs, statements) ==
  writeFile(fs, IndexPath, [operations |-> IndexOperations(statements)])

\* faulty variant of emitIfProcessed: the index is emitted whether or not a
\* statement was imported
emitIfProcessedAlways(fs, statements) == emitAggregatedIndex(fs, statements)

\* main: if (processedStatements.length) await emitAggregatedIndex(...)
emitIfProcessed(fs, statements) ==
  IF statements # <<>> THEN emitAggregatedIndex(fs, statements) ELSE fs


\* ------------------------------------------------------------------------
\* Invoice matcher: values and text
\*
\* Amounts of the matcher count thousandths of a currency unit (100.00 is
\* 100000), so that the rounding to cents and the 0.001 tolerance act on
\* something.  A Date is the number of its day, counted from 1970-01-01.
\* The atom "e_acute" stands for the single character e with an acute
\* accent.
\* ------------------------------------------------------------------------
\* the window of the date filter when INVOICE_MATCH_MAX_DAYS is not set
MAX_DATE_DIFF_DAYS == 120

\* the number Infinity: neither null (<<>>) nor a finite number (<<n>>)
Infinity == <<1, 0>>

LowerLetters ==
  <<"a", "b", "c", "d", "e", "f", "g", "h", "i", "j", "k", "l", "m",
    "n", "o", "p", "q", "r", "s", "t", "u", "v", "w", "x", "y", "z">>

UpperLetters ==
  <<"A", "B", "C", "D", "E", "F", "G", "H", "I", "J", "K", "L", "M",
    "N", "O", "P", "Q", "R", "S", "T", "U", "V", "W", "X", "Y", "Z">>

LetterIndex(c, letters) == CHOOSE i \in 1..Len(letters) : letters[i] = c

\* String.prototype.toUpperCase; the accented letter has its own capital
toUpperCase(s) ==
  [i \in 1..Len(s) |->
     IF s[i] \in Lower THEN UpperLetters[LetterIndex(s[i], LowerLetters)]
     ELSE IF s[i] = "e_acute" THEN "E_acute"
     ELSE s[i]]

\* String.prototype.toLowerCase
toLowerCase(s) ==
  [i \in 1..Len(s) |->
     IF s[i] \in Upper THEN LowerLetters[LetterIndex(s[i], UpperLetters)]
     ELSE IF s[i] = "E_acute" THEN "e_acute"
     ELSE s[i]]

\* s.replace(/[^set]+/g, ''): the atoms of s that are in set
RECURSIVE KeepOnly(_, _)
KeepOnly(s, set) ==
  IF s = <<>> THEN <<>>
  ELSE IF s[1] \in set THEN <<s[1]>> \o KeepOnly(Tail(s), set)
  ELSE KeepOnly(Tail(s), set)

\* s.replace(/[^set]+/g, ' '): every run of atoms outside set becomes a space
RECURSIVE ReplaceRunsOutside(_, _)
ReplaceRunsOutside(s, set) ==
  IF s = <<>> THEN <<>>
  ELSE IF s[1] \in set THEN <<s[1]>> \o ReplaceRunsOutside(Tail(s), set)
  ELSE <<Space>> \o ReplaceRunsOutside(Tail1(s, SkipUntil(s, 1, set)), set)

\* Boolean(part) for a string or null
Truthy(part) == part # Null /\ part # <<>>

\* parts.join(sep)
RECURSIVE JoinWith(_, _)
JoinWith(parts, sep) ==
  IF parts = <<>> THEN <<>>
  ELSE IF Len(parts) = 1 THEN parts[1]
  ELSE parts[1] \o <<sep>> \o JoinWith(Tail(parts), sep)

\* the number NaN, which Number() makes of a text that is no number
NaN == <<0, 0>>

\* parseNumber: null for null, undefined, '' and NaN, else the number
parseNumber(value) == IF value = NullNum \/ value = NaN THEN NullNum ELSE value

\* value || 0 for a number or null
OrZero(value) == IF value = NullNum \/ value = Num(0) THEN 0 ELSE value[1]

\* Math.round(value * 100) / 100, halves rounded up
roundCurrency(value) == ((value + 5) \div 10) * 10

sanitize(str) == IF str = Null THEN <<>> ELSE Trim(str)

normalize(str) == toUpperCase(RemoveAll(sanitize(str), {Space}))

tokenize(str) ==
  SplitWords(ReplaceRunsOutside(toLowerCase(sanitize(str)), Lower \cup Digits))

IsLeapYear(y) == (y % 4 = 0 /\ y % 100 # 0) \/ y % 400 = 0

DaysInMonth(y, m) ==
  IF m = 2 THEN (IF IsLeapYear(y) THEN 29 ELSE 28)
  ELSE IF m \in {4, 6, 9, 11} THEN 30
  ELSE 31

RECURSIVE DaysBeforeMonth(_, _)
DaysBeforeMonth(y, m) ==
  IF m = 1 THEN 0 ELSE DaysBeforeMonth(y, m - 1) + DaysInMonth(y, m - 1)

\* days from 1970-01-01 to the first of January of year y >= 1970
DaysBeforeYear(y) ==
  365 * (y - 1970) + ((y - 1969) \div 4) - ((y - 1901) \div 100)
    + ((y - 1601) \div 400)

\* Date.prototype.getTime() / msPerDay of the date y-m-d (UTC midnight)
DayNumber(y, m, d) == DaysBeforeYear(y) + DaysBeforeMonth(y, m) + (d - 1)

\* the text is YYYY-MM-DD and names a day of the calendar
IsCalendarDate(s) ==
  /\ Len(s) = 10
  /\ s[5] = "-" /\ s[8] = "-"
  /\ AllIn(SubSeq(s, 1, 4) \o SubSeq(s, 6, 7) \o SubSeq(s, 9, 10), Digits)
  /\ ParseInt(SubSeq(s, 1, 4)) >= 1970
  /\ ParseInt(SubSeq(s, 6, 7)) \in 1..12
  /\ ParseInt(SubSeq(s, 9, 10)) \in
       1..DaysInMonth(ParseInt(SubSeq(s, 1, 4)), ParseInt(SubSeq(s, 6, 7)))

\* parseDate: null for a falsy value and for an invalid Date.  Of the
\* formats new Date() reads, only YYYY-MM-DD is modelled; every other text
\* of the inputs is one that new Date() rejects.
parseDate(value) ==
  IF value = Null \/ value = <<>> THEN NullNum
  ELSE IF IsCalendarDate(value)
  THEN Num(DayNumber(ParseInt(SubSeq(value, 1, 4)), ParseInt(SubSeq(value, 6, 7)),
                     ParseInt(SubSeq(value, 9, 10))))
  ELSE NullNum

Abs(n) == IF n < 0 THEN -n ELSE n

diffDays(a, b) ==
  IF a = NullNum \/ b = NullNum THEN Infinity
  ELSE Num(Abs(a[1] - b[1]))

\* days > limit for a number of days or Infinity
Exceeds(days, limit) == days = Infinity \/ days[1] > limit

\* ------------------------------------------------------------------------
\* Invoice matcher: scores
\* ------------------------------------------------------------------------
LabelInvoiceAmount == <<"i", "n", "v", "o", "i", "c", "e", " ", "a", "m", "o", "u", "n", "t">>

LabelPartialPayment == <<"r", "e", "c", "o", "r", "d", "e", "d", " ", "p", "a", "r", "t", "i", "a", "l", " ", "p", "a", "y", "m", "e", "n", "t">>

StrPartial == <<"p", "a", "r", "t", "i", "a", "l">>

\* the invoice tokens are a Set, the counterparty tokens stay an array and
\* every one of them that the Set has counts
NameScoreWith(invoiceTokens, counterTokens) ==
  IF invoiceTokens = {} \/ counterTokens = <<>> THEN 0
  ELSE Cardinality({i \in 1..Len(counterTokens) : counterTokens[i] \in invoiceTokens})

TokenSet(tokens) == {tokens[i] : i \in 1..Len(tokens)}

computeNameScore(invoiceClientName, counterpartyName) ==
  IF ~ Truthy(invoiceClientName) \/ ~ Truthy(counterpartyName) THEN 0
  ELSE NameScoreWith(TokenSet(tokenize(invoiceClientName)), tokenize(counterpartyName))

\* The score of computeConfidence is kept in tenths: 50 is 500.
\* daysDiff is a number of whole days or null.
DateDelta(daysDiff) ==
  IF daysDiff = NullNum THEN 50
  ELSE IF daysDiff[1] <= 2 THEN 300
  ELSE IF daysDiff[1] <= 7 THEN 250
  ELSE IF daysDiff[1] <= 14 THEN 220
  ELSE IF daysDiff[1] <= 30 THEN 150
  ELSE IF daysDiff[1] <= 60 THEN 100
  ELSE IF daysDiff[1] <= 90 THEN 60
  ELSE IF daysDiff[1] <= 120 THEN 40
  ELSE 10 - (IF daysDiff[1] - 120 < 100 THEN daysDiff[1] - 120 ELSE 100)

\* faulty variant of RefDelta: a reference score of 1 earns nothing
RefDeltaWithoutOne(refScore) ==
  IF refScore >= 3 THEN 150
  ELSE IF refScore = 2 THEN 120
  ELSE 0

RefDelta(refScore) ==
  IF refScore >= 3 THEN 150
  ELSE IF refScore = 2 THEN 120
  ELSE IF refScore = 1 THEN 80
  ELSE 0

NameDelta(nameScore) ==
  IF nameScore >= 3 THEN 100
  ELSE IF nameScore = 2 THEN 80
  ELSE IF nameScore = 1 THEN 60
  ELSE IF nameScore = 0 THEN -20
  ELSE 0

\* faulty variant of PartialDelta: a partial-payment target costs 15
PartialDeltaFifteen(targetLabel) ==
  IF Truthy(targetLabel) /\ Includes(toLowerCase(targetLabel), StrPartial)
  THEN -150 ELSE 0

PartialDelta(targetLabel) ==
  IF Truthy(targetLabel) /\ Includes(toLowerCase(targetLabel), StrPartial)
  THEN -50 ELSE 0

\* Math.round of a score in tenths: halves go up
RoundTenths(score) == (score + 5) \div 10

\* Math.max(10, Math.min(99, n))
ClampConfidence(n) == IF n > 99 THEN 99 ELSE IF n < 10 THEN 10 ELSE n

computeConfidence(daysDiff, refScore, nameScore, targetLabel) ==
  ClampConfidence(RoundTenths(500 + DateDelta(daysDiff) + RefDelta(refScore)
                                + NameDelta(nameScore) + PartialDelta(targetLabel)))

\* ------------------------------------------------------------------------
\* Invoice matcher: loadOperations and findMatchesForInvoice
\* ------------------------------------------------------------------------
StrCredit == <<"c", "r", "e", "d", "i", "t">>

StrDebit == <<"d", "e", "b", "i", "t">>

StrNull == <<"n", "u", "l", "l">>

\* a || b for strings and null
OrText(a, b) == IF Truthy(a) THEN a ELSE b

IsCreditWithAmount(operation) ==
  /\ toLowerCase(sanitize(operation.direction)) = StrCredit
  /\ operation.amount # NullNum

\* faulty variant of LoadedOperation: the value date is preferred to the
\* booking date
LoadedOperationValueDateFirst(operation) ==
  [statementId |-> operation.statementId,
   sequence |-> operation.sequence,
   bankReference |-> operation.bankReference,
   bookingDate |-> OrText(operation.valueDate, OrText(operation.bookingDate, Null)),
   valueDate |-> operation.valueDate,
   amount |-> operation.amount[1],
   direction |-> operation.direction,
   communication |-> operation.communication,
   orderReference |-> operation.orderReference,
   counterpartyName |-> operation.counterpartyName]

\* the entry as loadOperations maps it: amount a number, bookingDate falling
\* back on valueDate
LoadedOperation(operation) ==
  [statementId |-> operation.statementId,
   sequence |-> operation.sequence,
   bankReference |-> operation.bankReference,
   bookingDate |-> OrText(operation.bookingDate, OrText(operation.valueDate, Null)),
   valueDate |-> operation.valueDate,
   amount |-> operation.amount[1],
   direction |-> operation.direction,
   communication |-> operation.communication,
   orderReference |-> operation.orderReference,
   counterpartyName |-> operation.counterpartyName]

MapLoaded(operations) ==
  [i \in 1..Len(operations) |-> LoadedOperation(operations[i])]

loadOperations(operations) == MapLoaded(SelectSeq(operations, IsCreditWithAmount))

buildReferenceString(operation) ==
  normalize(JoinWith(SelectSeq(<<operation.communication, operation.orderReference,
                                 operation.bankReference>>, Truthy), Space))

\* a || b for Dates and null
OrDate(a, b) == IF a # NullNum THEN a ELSE b

InvoiceAmount(invoice) == OrZero(parseNumber(invoice.amount))

InvoiceBalance(invoice) == OrZero(parseNumber(invoice.balance))

\* amount - balance, exact
PaidAmount(invoice) == InvoiceAmount(invoice) - InvoiceBalance(invoice)

\* The source subtracts doubles.  For the amounts of the model the double
\* a - b is the exact difference, except 100.01 - 100 = 0.010000000000005116
\* (above 0.01) and 50.01 - 50 = 0.00999999999999801 (below 0.01): 1 when the
\* double lies above the exact difference, -1 when below, 0 when equal.
SubtractionError(a, b) ==
  IF a = 100010 /\ b = 100000 THEN 1
  ELSE IF a = 50010 /\ b = 50000 THEN -1
  ELSE 0

PaidAmountError(invoice) ==
  SubtractionError(InvoiceAmount(invoice), InvoiceBalance(invoice))

InvoiceDate(invoice) ==
  OrDate(parseDate(invoice.invoice_date), OrDate(parseDate(invoice.due_date), NullNum))

InvoiceNumber(invoice) == sanitize(OrText(invoice.invoice_number, invoice.number))

InvoiceNumberDigits(invoiceNumber) ==
  IF invoiceNumber # <<>> THEN KeepOnly(invoiceNumber, Digits) ELSE <<>>

\* an invoice without client is one whose client has neither name
ClientName(invoice) ==
  OrText(OrText(invoice.client.display_name, invoice.client.name), <<>>)

FullTarget(amount) ==
  IF amount > 0
  THEN <<[value |-> roundCurrency(amount), label |-> LabelInvoiceAmount]>>
  ELSE <<>>

\* faulty variant of PartialTarget: the threshold is not applied
PartialTargetUnguarded(paidAmount, error) ==
  <<[value |-> roundCurrency(paidAmount), label |-> LabelPartialPayment]>>

\* paidAmount > 0.01, for the double whose exact value is paidAmount
PartialTarget(paidAmount, error) ==
  IF paidAmount > 10 \/ (paidAmount = 10 /\ error > 0)
  THEN <<[value |-> roundCurrency(paidAmount), label |-> LabelPartialPayment]>>
  ELSE <<>>

Targets(amount, paidAmount, error) ==
  FullTarget(amount) \o PartialTarget(paidAmount, error)

\* `${value}` for a string or null
TemplateText(value) == IF value = Null THEN StrNull ELSE value

operationKey(operation, target) ==
  TemplateText(operation.statementId) \o <<":">>
    \o TemplateText(OrText(operation.sequence,
                           OrText(operation.bankReference, operation.bookingDate)))
    \o <<":">> \o target.label

\* faulty variant of RefScoreOf: the digits of the invoice number are not tried
RefScoreOfNumberOnly(invoiceNumber, invoiceNumberDigits, referenceString) ==
  IF invoiceNumber # <<>> /\ Includes(referenceString, normalize(invoiceNumber))
  THEN 2
  ELSE 0

RefScoreOf(invoiceNumber, invoiceNumberDigits, referenceString) ==
  IF invoiceNumberDigits # <<>> /\ Includes(referenceString, invoiceNumberDigits)
  THEN 3
  ELSE IF invoiceNumber # <<>> /\ Includes(referenceString, normalize(invoiceNumber))
  THEN 2
  ELSE 0

\* the candidate with its confidence; daysDiff is already null or a number
CandidateWith(targetLabel, operation, daysDiff, refScore, nameScore) ==
  [targetLabel |-> targetLabel, operation |-> operation, daysDiff |-> daysDiff,
   refScore |-> refScore, nameScore |-> nameScore,
   confidence |-> computeConfidence(daysDiff, refScore, nameScore, targetLabel)]

NullIfInfinity(days) == IF days = Infinity THEN NullNum ELSE days

\* faulty variant of PassesDateFilter: a difference equal to the window fails
PassesDateFilterStrict(days) ==
  ~ (days = Infinity \/ days[1] >= MAX_DATE_DIFF_DAYS)

\* the negation of `days > MAX_DATE_DIFF_DAYS`
PassesDateFilter(days) == ~ Exceeds(days, MAX_DATE_DIFF_DAYS)

\* the body of the inner loop once the amount matched and the key is new
ExamineDated(m, target, operation, days) ==
  IF ~ PassesDateFilter(days) THEN m
  ELSE [m EXCEPT
          !.candidates =
             Append(@, CandidateWith(target.label, operation, NullIfInfinity(days),
                                     RefScoreOf(m.invoiceNumber, m.invoiceNumberDigits,
                                                buildReferenceString(operation)),
                                     computeNameScore(m.clientName,
                                                      operation.counterpartyName))),
          !.seenOperationIds = @ \cup {operationKey(operation, target)}]

\* |opAmount - target.value| > 0.001
AmountDiffers(operation, target) ==
  Abs(roundCurrency(operation.amount) - target.value) > 1

\* one pass of the inner loop body
Examine(m, target, operation) ==
  IF AmountDiffers(operation, target) THEN m
  ELSE IF operationKey(operation, target) \in m.seenOperationIds THEN m
  ELSE ExamineDated(m, target, operation,
                    diffDays(m.invoiceDate, parseDate(operation.bookingDate)))

\* the comparator of candidates.sort: negative, zero or positive.  A null
\* daysDiff stands for Number.MAX_SAFE_INTEGER, which is above every day
\* difference that passed the date filter.
CompareDays(a, b) ==
  IF a.daysDiff = b.daysDiff THEN 0
  ELSE IF a.daysDiff = NullNum THEN 1
  ELSE IF b.daysDiff = NullNum THEN -1
  ELSE a.daysDiff[1] - b.daysDiff[1]

CompareCandidates(a, b) ==
  IF CompareDays(a, b) # 0 THEN CompareDays(a, b)
  ELSE IF a.refScore # b.refScore THEN b.refScore - a.refScore
  ELSE IF a.nameScore # b.nameScore THEN b.nameScore - a.nameScore
  ELSE 0

\* Array.prototype.sort is stable: a candidate goes behind the candidates
\* that compare equal to it and came before it
RECURSIVE InsertCandidate(_, _)
InsertCandidate(sorted, candidate) ==
  IF sorted = <<>> THEN <<candidate>>
  ELSE IF CompareCandidates(candidate, Head(sorted)) < 0 THEN <<candidate>> \o sorted
  ELSE <<Head(sorted)>> \o InsertCandidate(Tail(sorted), candidate)

RECURSIVE SortInto(_, _)
SortInto(sorted, rest) ==
  IF rest = <<>> THEN sorted
  ELSE SortInto(InsertCandidate(sorted, Head(rest)), Tail(rest))

SortCandidates(candidates) == SortInto(<<>>, candidates)

\* faulty variant of TopCandidates: the list is not cut
TopCandidatesUncut(candidates) == candidates

\* candidates.slice(0, 5)
TopCandidates(candidates) ==
  IF Len(candidates) <= 5 THEN candidates ELSE SubSeq(candidates, 1, 5)

MatcherStart(invoice, operations) ==
  [pc |-> "load", invoice |-> invoice, index |-> operations, operations |-> <<>>,
   invoiceDate |-> NullNum, invoiceNumber |-> <<>>, invoiceNumberDigits |-> <<>>,
   clientName |-> <<>>, targets |-> <<>>, t |-> 0, i |-> 0,
   seenOperationIds |-> {}, candidates |-> <<>>, result |-> <<>>]

StepLoad(m) == [m EXCEPT !.pc = "targets", !.operations = loadOperations(m.index)]

StepTargetsWith(m, invoiceNumber, targets) ==
  [m EXCEPT !.pc = IF targets = <<>> \/ m.operations = <<>> THEN "sort" ELSE "loop",
            !.invoiceDate = InvoiceDate(m.invoice),
            !.invoiceNumber = invoiceNumber,
            !.invoiceNumberDigits = InvoiceNumberDigits(invoiceNumber),
            !.clientName = ClientName(m.invoice),
            !.targets = targets]

StepTargets(m) ==
  StepTargetsWith(m, InvoiceNumber(m.invoice),
                  Targets(InvoiceAmount(m.invoice), PaidAmount(m.invoice),
                          PaidAmountError(m.invoice)))

\* the cursors after one pass of the inner loop
Advance(m) ==
  IF m.i + 1 < Len(m.operations) THEN [m EXCEPT !.i = @ + 1]
  ELSE IF m.t + 1 < Len(m.targets) THEN [m EXCEPT !.i = 0, !.t = @ + 1]
  ELSE [m EXCEPT !.pc = "sort"]

StepExamine(m) == Advance(Examine(m, m.targets[m.t + 1], m.operations[m.i + 1]))

StepSort(m) == [m EXCEPT !.pc = "return", !.candidates = SortCandidates(@)]

StepReturnTop(m) == [m EXCEPT !.pc = "done", !.result = TopCandidates(m.candidates)]

VARIABLES
  parser,               \* state of the statement parser
  collections,          \* the ZIP and PDF files collectSources found
  options,              \* parsed command line
  files,                \* the output directory: a set of [path, content]
  pc,                   \* position of main
  zipCursor,            \* archives done in main's first loop
  entryCursor,          \* entries done in processZipArchive
  pdfCursor,            \* files done in main's second loop
  zipResults,           \* statements and failures of the archive being read
  processedStatements,  \* main's list of imported statements
  failures,             \* main's failure list
  exitCode,             \* process.exitCode of the current run
  runs,                 \* completed runs
  filesAtStart,         \* the output directory when the current run began
  indexAtExit,          \* the index content at the end of each completed run
  matcher,              \* state of findMatchesForInvoice
  calc,                 \* argument and result of one pure function call
  client,               \* one GoCardless client and the calls made through it
  store,                \* the statements directory of the snapshot store
  script                \* one run of an Invoice Ninja payment script

importerVars ==
  <<collections, options, files, pc, zipCursor, entryCursor, pdfCursor, zipResults,
    processedStatements, failures, exitCode, runs, filesAtStart, indexAtExit>>

toolVars == <<client, store, script>>

vars == <<parser, importerVars, matcher, calc, toolVars>>

\* The value of a variable that a specification does not use.
Unused == <<>>

ToolsUnused ==
  /\ client = Unused
  /\ store = Unused
  /\ script = Unused

NoResults == [statements |-> <<>>, failures |-> <<>>]

ImporterIdle ==
  /\ pc = "idle"
  /\ zipCursor = 0
  /\ entryCursor = 0
  /\ pdfCursor = 0
  /\ zipResults = NoResults
  /\ processedStatements = <<>>
  /\ failures = <<>>
  /\ exitCode = 0
  /\ runs = 0
  /\ indexAtExit = <<>>

\* ------------------------------------------------------------------------
\* Specification of one parse
\* ------------------------------------------------------------------------
ParserInit ==
  /\ parser \in {ParserStart(InputLines(h, b, v), c) :
                   h \in HeaderVariants, b \in Bodies, v \in LineVariants,
                   c \in {ContextPdf, ContextZip}}
  /\ collections = [zipFiles |-> <<>>, pdfFiles |-> <<>>]
  /\ options = [overwrite |-> FALSE]
  /\ files = {}
  /\ filesAtStart = {}
  /\ ImporterIdle
  /\ matcher = Unused
  /\ calc = Unused
  /\ ToolsUnused

ExtractStatementMeta ==
  /\ parser.pc = "meta"
  /\ parser' = StepMeta(parser)
  /\ UNCHANGED <<importerVars, matcher, calc, toolVars>>

LocateOperationsHeader ==
  /\ parser.pc = "header"
  /\ parser' = StepHeader(parser)
  /\ UNCHANGED <<importerVars, matcher, calc, toolVars>>

SkipColumnTitles ==
  /\ parser.pc = "skip"
  /\ parser' = StepSkip(parser)
  /\ UNCHANGED <<importerVars, matcher, calc, toolVars>>

OperationLoop ==
  /\ parser.pc = "outer"
  /\ parser' = StepOuter(parser)
  /\ UNCHANGED <<importerVars, matcher, calc, toolVars>>

DetailBlock ==
  /\ parser.pc = "detail"
  /\ parser' = StepDetail(parser)
  /\ UNCHANGED <<importerVars, matcher, calc, toolVars>>

FallbackScan ==
  /\ parser.pc = "fallback"
  /\ parser' = StepFallback(parser)
  /\ UNCHANGED <<importerVars, matcher, calc, toolVars>>

BuildOperation ==
  /\ parser.pc = "build"
  /\ parser' = StepBuild(parser)
  /\ UNCHANGED <<importerVars, matcher, calc, toolVars>>

ReturnStatement ==
  /\ parser.pc = "return"
  /\ parser' = StepReturn(parser)
  /\ UNCHANGED <<importerVars, matcher, calc, toolVars>>

ParserNext ==
  \/ ExtractStatementMeta
  \/ LocateOperationsHeader
  \/ SkipColumnTitles
  \/ OperationLoop
  \/ DetailBlock
  \/ FallbackScan
  \/ BuildOperation
  \/ ReturnStatement

ParserSpec == ParserInit /\ [][ParserNext]_vars

\* before the call: nothing has been read
ParserIdle == [ParserStart(<<>>, ContextPdf) EXCEPT !.pc = "call"]

ParserFairInit ==
  /\ parser = ParserIdle
  /\ collections = [zipFiles |-> <<>>, pdfFiles |-> <<>>]
  /\ options = [overwrite |-> FALSE]
  /\ files = {}
  /\ filesAtStart = {}
  /\ ImporterIdle
  /\ matcher = Unused
  /\ calc = Unused
  /\ ToolsUnused

\* parseStatement is called on the normalized lines of one document
CallParseStatement ==
  /\ parser.pc = "call"
  /\ \E h \in HeaderVariants, b \in Bodies, v \in LineVariants :
       parser' = ParserStart(InputLines(h, b, v), ContextPdf)
  /\ UNCHANGED <<importerVars, matcher, calc, toolVars>>

ParserFairNext ==
  \/ CallParseStatement
  \/ ParserNext

\* no step of the parser is pending: before the call and after its end
ParserAtRest == parser.pc \in {"call", "done", "failed"}

\* parseStatement is one synchronous call: once started, its loops run on
\* until it returns or throws. This is weak fairness of ParserNext, with the
\* enabling condition of ParserNext written as the state predicate it is.
ParserRunsOn == []<>ParserAtRest \/ []<><<ParserNext>>_vars

ParserFairSpec == ParserFairInit /\ [][ParserFairNext]_vars /\ ParserRunsOn

\* ------------------------------------------------------------------------
\* Specification of the importer: main run on one batch, then run again
\* ------------------------------------------------------------------------
ParserUnused == ParserStart(<<>>, ContextPdf)

ImporterInit ==
  /\ parser = ParserUnused
  /\ collections \in Collections
  /\ options \in [overwrite : BOOLEAN]
  /\ files \in InitialFiles
  /\ filesAtStart = files
  /\ ImporterIdle
  /\ matcher = Unused
  /\ calc = Unused
  /\ ToolsUnused

NoSources == collections.zipFiles = <<>> /\ collections.pdfFiles = <<>>

\* main up to the early return: nothing to import
StartRunNoSources ==
  /\ pc \in {"idle", "exited"}
  /\ runs < MaxRuns
  /\ NoSources
  /\ pc' = "exited"
  /\ exitCode' = 0
  /\ processedStatements' = <<>>
  /\ failures' = <<>>
  /\ runs' = runs + 1
  /\ filesAtStart' = files
  /\ indexAtExit' = Append(indexAtExit, readFile(files, IndexPath))
  /\ UNCHANGED <<parser, matcher, calc, toolVars, collections, options, files, zipCursor, entryCursor,
                 pdfCursor, zipResults>>

\* main up to the first loop
StartRun ==
  /\ pc \in {"idle", "exited"}
  /\ runs < MaxRuns
  /\ ~ NoSources
  /\ pc' = "main"
  /\ exitCode' = 0
  /\ processedStatements' = <<>>
  /\ failures' = <<>>
  /\ zipCursor' = 0
  /\ pdfCursor' = 0
  /\ entryCursor' = 0
  /\ zipResults' = NoResults
  /\ filesAtStart' = files
  /\ UNCHANGED <<parser, matcher, calc, toolVars, collections, options, files, runs, indexAtExit>>

\* processZipArchive is entered for the next archive
OpenZip ==
  /\ pc = "main"
  /\ zipCursor < Len(collections.zipFiles)
  /\ pc' = "zip"
  /\ entryCursor' = 0
  /\ zipResults' = NoResults
  /\ UNCHANGED <<parser, matcher, calc, toolVars, collections, options, files, zipCursor, pdfCursor,
                 processedStatements, failures, exitCode, runs, filesAtStart,
                 indexAtExit>>

CurrentZip == collections.zipFiles[zipCursor + 1]

\* one iteration of the entry loop of processZipArchive
\* one iteration of the entry loop of processZipArchive
ProcessZipEntry ==
  /\ pc = "zip"
  /\ entryCursor < Len(CurrentZip.entries)
  /\ \E acc \in {ProcessEntry(zipResults @@ [fs |-> files], CurrentZip.zipPath,
                              CurrentZip.entries[entryCursor + 1], options.overwrite)} :
        /\ zipResults' = [statements |-> acc.statements, failures |-> acc.failures]
        /\ files' = acc.fs
  /\ entryCursor' = entryCursor + 1
  /\ UNCHANGED <<parser, matcher, calc, toolVars, collections, options, pc, zipCursor, pdfCursor,
                 processedStatements, failures, exitCode, runs, filesAtStart,
                 indexAtExit>>

\* processZipArchive returns and main pushes its results
CloseZip ==
  /\ pc = "zip"
  /\ entryCursor = Len(CurrentZip.entries)
  /\ processedStatements' = processedStatements \o zipResults.statements
  /\ failures' = failures \o zipResults.failures
  /\ zipCursor' = zipCursor + 1
  /\ zipResults' = NoResults
  /\ entryCursor' = 0
  /\ pc' = "main"
  /\ UNCHANGED <<parser, matcher, calc, toolVars, collections, options, files, pdfCursor, exitCode, runs,
                 filesAtStart, indexAtExit>>

\* one iteration of main's second loop
\* one iteration of main's second loop
ProcessSinglePdf ==
  /\ pc = "main"
  /\ zipCursor = Len(collections.zipFiles)
  /\ pdfCursor < Len(collections.pdfFiles)
  /\ \E pdfResults \in {processSinglePdf(files, collections.pdfFiles[pdfCursor + 1],
                                         options.overwrite)} :
        /\ processedStatements' = processedStatements \o pdfResults.statements
        /\ failures' = failures \o pdfResults.failures
        /\ files' = pdfResults.fs
  /\ pdfCursor' = pdfCursor + 1
  /\ UNCHANGED <<parser, matcher, calc, toolVars, collections, options, pc, zipCursor, entryCursor, zipResults,
                 exitCode, runs, filesAtStart, indexAtExit>>

\* the end of main: the index, the summary and the exit code
FinishRun ==
  /\ pc = "main"
  /\ zipCursor = Len(collections.zipFiles)
  /\ pdfCursor = Len(collections.pdfFiles)
  /\ \E written \in {emitIfProcessed(files, processedStatements)} :
        /\ files' = written
        /\ indexAtExit' = Append(indexAtExit, readFile(written, IndexPath))
  /\ exitCode' = IF failures # <<>> THEN 1 ELSE exitCode
  /\ pc' = "exited"
  /\ runs' = runs + 1
  /\ UNCHANGED <<parser, matcher, calc, toolVars, collections, options, zipCursor, entryCursor, pdfCursor,
                 zipResults, processedStatements, failures, filesAtStart>>

ImporterNext ==
  \/ StartRunNoSources
  \/ StartRun
  \/ OpenZip
  \/ ProcessZipEntry
  \/ CloseZip
  \/ ProcessSinglePdf
  \/ FinishRun

ImporterSpec == ImporterInit /\ [][ImporterNext]_vars


\* ------------------------------------------------------------------------
\* Specification of one call of parseValueLine on a generated value line
\* ------------------------------------------------------------------------
ImporterUnused ==
  /\ collections = [zipFiles |-> <<>>, pdfFiles |-> <<>>]
  /\ options = [overwrite |-> FALSE]
  /\ files = {}
  /\ filesAtStart = {}
  /\ ImporterIdle

Months == 1..12

BookingYears == {2023, 2024}

\* no explicit year, or one that differs from every booking year
LiteralYears == {<<>>, <<"2", "0", "2", "1">>, <<"2", "0", "2", "6">>}

TwoDigits(n) == padLeft(IntToString(n), 2)

\* the text "DD-MM[-YYYY] 7,50 +" that VALUE_LINE_REGEX accepts
ValueLineText(day, month, yearMaybe) ==
  TwoDigits(day) \o <<"-">> \o TwoDigits(month)
    \o (IF yearMaybe = <<>> THEN <<>> ELSE <<"-">> \o yearMaybe)
    \o <<Space, "7", ",", "5", "0", Space, "+">>

\* the booking date as toIsoDate hands it to parseValueLine: YYYY-MM-DD
BookingDateText(year, month) ==
  IntToString(year) \o <<"-">> \o TwoDigits(month) \o <<"-", "1", "5">>

ValueDateCall(day, mv, yearMaybe, by, mb) ==
  [fn |-> "parseValueLine", day |-> day, valueMonth |-> mv, yearMaybe |-> yearMaybe,
   bookingYear |-> by, bookingMonth |-> mb,
   line |-> ValueLineText(day, mv, yearMaybe),
   bookingDate |-> IF by = 0 THEN Null ELSE BookingDateText(by, mb),
   done |-> FALSE, result |-> Unused]

ValueDateInit ==
  /\ calc \in {ValueDateCall(day, mv, y, by, mb) :
                 day \in {4, 28}, mv \in Months, y \in LiteralYears,
                 by \in BookingYears \cup {0}, mb \in Months}
  /\ parser = ParserUnused
  /\ ImporterUnused
  /\ matcher = Unused
  /\ ToolsUnused

ApplyParseValueLine ==
  /\ calc.fn = "parseValueLine"
  /\ ~ calc.done
  /\ calc' = [calc EXCEPT !.done = TRUE,
                          !.result = parseValueLine(calc.line, calc.bookingDate,
                                                    <<"E", "U", "R">>)]
  /\ UNCHANGED <<parser, importerVars, matcher, toolVars>>

ValueDateNext == ApplyParseValueLine

ValueDateSpec == ValueDateInit /\ [][ValueDateNext]_vars

\* ------------------------------------------------------------------------
\* Specification of one call of computeConfidence
\* ------------------------------------------------------------------------
\* largest day difference of a call
MaxDays == 230

\* largest name score of a call
MaxNameScore == 4

ConfidenceCall(daysDiff, refScore, nameScore, targetLabel) ==
  [fn |-> "computeConfidence", daysDiff |-> daysDiff, refScore |-> refScore,
   nameScore |-> nameScore, targetLabel |-> targetLabel,
   done |-> FALSE, result |-> 0]

ConfidenceInit ==
  /\ calc \in {ConfidenceCall(d, r, n, l) :
                 d \in {NullNum} \cup {Num(k) : k \in 0..MaxDays},
                 r \in 0..3, n \in 0..MaxNameScore,
                 l \in {Null, LabelInvoiceAmount, LabelPartialPayment}}
  /\ parser = ParserUnused
  /\ ImporterUnused
  /\ matcher = Unused
  /\ ToolsUnused

ApplyComputeConfidence ==
  /\ calc.fn = "computeConfidence"
  /\ ~ calc.done
  /\ calc' = [calc EXCEPT !.done = TRUE,
                          !.result = computeConfidence(calc.daysDiff, calc.refScore,
                                                       calc.nameScore, calc.targetLabel)]
  /\ UNCHANGED <<parser, importerVars, matcher, toolVars>>

ConfidenceNext == ApplyComputeConfidence

ConfidenceSpec == ConfidenceInit /\ [][ConfidenceNext]_vars

\* ------------------------------------------------------------------------
\* Specification of one call of computeNameScore
\* ------------------------------------------------------------------------
NameAcme == <<"A", "C", "M", "E", " ", "S", "R", "L">>

NameAcmeTwice == <<"A", "c", "m", "e", " ", "-", " ", "A", "C", "M", "E">>

NameOther == <<"G", "l", "o", "b", "e", "x", " ", "2", " ", "N", "V">>

NameAccent == <<"S", "o", "c", "i", "e_acute", "t", "e_acute", " ", "A", "c", "m", "e">>

NamePlain == <<"S", "o", "c", "i", "e", "t", "e", " ", "A", "c", "m", "e">>

NameSymbols == <<"&", " ", "-">>

NameLong == <<"a", "c", "m", "e", " ", "s", "r", "l", " ", "b", "e", "l", "g", "i", "u", "m", " ", "2">>

NamePool ==
  {Null, <<>>, NameAcme, NameAcmeTwice, NameOther, NameAccent, NamePlain,
   NameSymbols, NameLong}

NameScoreCall(invoiceClientName, counterpartyName) ==
  [fn |-> "computeNameScore", invoiceClientName |-> invoiceClientName,
   counterpartyName |-> counterpartyName, done |-> FALSE, result |-> 0]

NameScoreInit ==
  /\ calc \in {NameScoreCall(a, b) : a \in NamePool, b \in NamePool}
  /\ parser = ParserUnused
  /\ ImporterUnused
  /\ matcher = Unused
  /\ ToolsUnused

ApplyComputeNameScore ==
  /\ calc.fn = "computeNameScore"
  /\ ~ calc.done
  /\ calc' = [calc EXCEPT !.done = TRUE,
                          !.result = computeNameScore(calc.invoiceClientName,
                                                      calc.counterpartyName)]
  /\ UNCHANGED <<parser, importerVars, matcher, toolVars>>

NameScoreNext == ApplyComputeNameScore

NameScoreSpec == NameScoreInit /\ [][NameScoreNext]_vars

\* ------------------------------------------------------------------------
\* Specification of one call of findMatchesForInvoice on a loaded index
\* ------------------------------------------------------------------------
\* entries in the operations index
MaxOps == 3

DateInvoice == <<"2", "0", "2", "4", "-", "0", "4", "-", "0", "1">>

DatePlus120 == <<"2", "0", "2", "4", "-", "0", "7", "-", "3", "0">>

DatePlus121 == <<"2", "0", "2", "4", "-", "0", "7", "-", "3", "1">>

DateMinus120 == <<"2", "0", "2", "3", "-", "1", "2", "-", "0", "3">>

DateMinus7 == <<"2", "0", "2", "4", "-", "0", "3", "-", "2", "5">>

NumberWithDigits == <<" ", "I", "N", "V", " ", "2", "2", "-", "0", "0", "0", "6">>

NumberLetters == <<"a", "b", " ", "c">>

CommWithDigits == <<"I", "n", "v", " ", "2", "2", "0", "0", "0", "6", " ", "t", "h", "a", "n", "k", "s">>

CommWithLetters == <<"r", "e", ":", " ", "A", " ", "B", "C">>

RefDigitsSplit == <<"2", "2", " ", "0", "0", "0", "6">>

RefDashed == <<"i", "n", "v", " ", "2", "2", "-", "0", "0", "0", "6">>

StatementS1 == <<"S", "1">>

StatementS2 == <<"S", "2">>

Seq0015 == <<"0", "0", "1", "5">>

Seq0016 == <<"0", "0", "1", "6">>

Seq0017 == <<"0", "0", "1", "7">>

BankRefA == <<"R", "E", "F", "9">>

\* an entry of the operations index, with the fields the matcher reads
Entry(statementId, sequence, bookingDate, valueDate, amount, direction, communication, orderReference, bankReference, counterpartyName) ==
  [statementId |-> statementId, sequence |-> sequence,
   bankReference |-> bankReference, bookingDate |-> bookingDate,
   valueDate |-> valueDate, amount |-> amount, direction |-> direction,
   communication |-> communication, orderReference |-> orderReference,
   counterpartyName |-> counterpartyName]

\* booked on the invoice date, the invoice number in the communication
EntrySameDay ==
  Entry(StatementS1, Seq0015, DateInvoice, DateInvoice, Num(100000), StrCredit,
        CommWithDigits, Null, Null, NameAcme)

\* 120 days after the invoice date, the counterparty named twice
EntryPlus120 ==
  Entry(StatementS1, Seq0016, DatePlus120, Null, Num(100000), StrCredit,
        CommWithLetters, Null, Null, NameAcmeTwice)

\* 121 days after the invoice date
EntryPlus121 ==
  Entry(StatementS2, Seq0015, DatePlus121, Null, Num(100000), StrCredit,
        Null, Null, BankRefA, NameOther)

\* neither booking date nor value date
EntryDateless ==
  Entry(StatementS2, Seq0016, Null, Null, Num(100000), StrCredit,
        Null, RefDigitsSplit, Null, NameAcme)

\* only a value date, 120 days before the invoice date; 99.996 rounds to 100.00
EntryValueDateOnly ==
  Entry(StatementS2, Seq0017, Null, DateMinus120, Num(99996), StrCredit,
        Null, RefDashed, Null, Null)

\* the amount of a partial payment, a week before the invoice date
EntryPartial ==
  Entry(StatementS1, Seq0017, DateMinus7, DateMinus7, Num(40000), StrCredit,
        CommWithDigits, Null, Null, NameLong)

\* a debit, which loadOperations drops
EntryDebit ==
  Entry(StatementS1, Null, DateInvoice, DateInvoice, Num(100000), StrDebit,
        CommWithDigits, Null, Null, NameAcme)

EntryPoolOfIndex ==
  {EntrySameDay, EntryPlus120, EntryPlus121, EntryDateless, EntryValueDateOnly,
   EntryPartial, EntryDebit}

\* the lists of up to n different entries
RECURSIVE IndexesUpTo(_)
IndexesUpTo(n) ==
  IF n = 0 THEN {<<>>}
  ELSE IndexesUpTo(n - 1)
         \cup {Append(s, e) : s \in {x \in IndexesUpTo(n - 1) : Len(x) = n - 1},
                              e \in EntryPoolOfIndex}

Indexes == {s \in IndexesUpTo(MaxOps) : \A i, j \in 1..Len(s) : i # j => s[i] # s[j]}

\* <<amount, balance>> of an invoice: unpaid, fully paid, partially paid,
\* one cent paid (twice), without a usable amount, zero
InvoiceAmounts ==
  {<<Num(100000), Num(100000)>>, <<Num(100000), Num(0)>>, <<Num(100000), Num(60000)>>,
   <<Num(100010), Num(100000)>>, <<Num(50010), Num(50000)>>, <<NaN, NullNum>>,
   <<Num(0), Num(0)>>}

Client(display_name, name) == [display_name |-> display_name, name |-> name]

\* <<invoice_date, due_date, invoice_number, number, client>>
InvoiceProfiles ==
  {<<DateInvoice, Null, NumberWithDigits, Null, Client(NameAcme, Null)>>,
   <<DateInvoice, DateMinus7, <<>>, NumberLetters, Client(Null, NameAcme)>>,
   <<<<>>, DateInvoice, Null, Null, Client(Null, Null)>>}

\* an invoice without any date
DatelessProfile == <<Null, <<>>, NumberWithDigits, Null, Client(NameAcme, Null)>>

Invoice(amounts, profile) ==
  [amount |-> amounts[1], balance |-> amounts[2],
   invoice_date |-> profile[1], due_date |-> profile[2],
   invoice_number |-> profile[3], number |-> profile[4], client |-> profile[5]]

Invoices ==
  {Invoice(a, p) : a \in InvoiceAmounts, p \in InvoiceProfiles}
    \cup {Invoice(a, DatelessProfile) :
            a \in {<<Num(100000), Num(100000)>>, <<Num(100000), Num(0)>>}}

MatcherInit ==
  /\ matcher \in {MatcherStart(invoice, index) : invoice \in Invoices, index \in Indexes}
  /\ parser = ParserUnused
  /\ ImporterUnused
  /\ calc = Unused
  /\ ToolsUnused

LoadOperations ==
  /\ matcher.pc = "load"
  /\ matcher' = StepLoad(matcher)
  /\ UNCHANGED <<parser, importerVars, calc, toolVars>>

BuildTargets ==
  /\ matcher.pc = "targets"
  /\ matcher' = StepTargets(matcher)
  /\ UNCHANGED <<parser, importerVars, calc, toolVars>>

ExamineOperation ==
  /\ matcher.pc = "loop"
  /\ matcher' = StepExamine(matcher)
  /\ UNCHANGED <<parser, importerVars, calc, toolVars>>

SortCandidateList ==
  /\ matcher.pc = "sort"
  /\ matcher' = StepSort(matcher)
  /\ UNCHANGED <<parser, importerVars, calc, toolVars>>

ReturnTopCandidates ==
  /\ matcher.pc = "return"
  /\ matcher' = StepReturnTop(matcher)
  /\ UNCHANGED <<parser, importerVars, calc, toolVars>>

MatcherNext ==
  \/ LoadOperations
  \/ BuildTargets
  \/ ExamineOperation
  \/ SortCandidateList
  \/ ReturnTopCandidates

MatcherSpec == MatcherInit /\ [][MatcherNext]_vars

\* ------------------------------------------------------------------------
\* Specification of the ranking: candidates.sort and slice on a given list
\* ------------------------------------------------------------------------
\* candidates in the list to rank
MaxCandidates == 6

\* same day, reference and name matched
RankedFirst ==
  CandidateWith(LabelInvoiceAmount, LoadedOperation(EntrySameDay), Num(0), 3, 2)

\* the same scores on another operation
RankedFirstToo ==
  CandidateWith(LabelPartialPayment, LoadedOperation(EntryPartial), Num(0), 3, 2)

RankedNoName ==
  CandidateWith(LabelInvoiceAmount, LoadedOperation(EntryPlus120), Num(0), 3, 0)

RankedNoReference ==
  CandidateWith(LabelInvoiceAmount, LoadedOperation(EntryPlus121), Num(0), 0, 2)

RankedLater ==
  CandidateWith(LabelInvoiceAmount, LoadedOperation(EntryValueDateOnly), Num(7), 3, 2)

RankedDateless ==
  CandidateWith(LabelInvoiceAmount, LoadedOperation(EntryDateless), NullNum, 3, 2)

RankedDatelessBare ==
  CandidateWith(LabelPartialPayment, LoadedOperation(EntryDateless), NullNum, 0, 0)

CandidatePool ==
  {RankedFirst, RankedFirstToo, RankedNoName, RankedNoReference, RankedLater,
   RankedDateless, RankedDatelessBare}

\* the lists of exactly n different candidates
RECURSIVE CandidateListsOf(_)
CandidateListsOf(n) ==
  IF n = 0 THEN {<<>>}
  ELSE UNION {{Append(s, c) : c \in CandidatePool \ {s[i] : i \in 1..Len(s)}} :
                s \in CandidateListsOf(n - 1)}

CandidateLists == UNION {CandidateListsOf(n) : n \in 0..MaxCandidates}

RankingCall(candidates) ==
  [fn |-> "rank", candidates |-> candidates, done |-> FALSE, result |-> <<>>]

RankingInit ==
  /\ calc \in {RankingCall(candidates) : candidates \in CandidateLists}
  /\ parser = ParserUnused
  /\ ImporterUnused
  /\ matcher = Unused
  /\ ToolsUnused

ApplySortAndSlice ==
  /\ calc.fn = "rank"
  /\ ~ calc.done
  /\ calc' = [calc EXCEPT !.done = TRUE,
                          !.result = TopCandidates(SortCandidates(calc.candidates))]
  /\ UNCHANGED <<parser, importerVars, matcher, toolVars>>

RankingNext == ApplySortAndSlice

RankingSpec == RankingInit /\ [][RankingNext]_vars
\* ------------------------------------------------------------------------
\* Specification of the chain importer -> operations-index.json -> matcher:
\* one document is parsed, its index entries are written and read back by
\* loadOperations, and one invoice is matched against them
\* ------------------------------------------------------------------------
\* the characters of a word that the importer's texts hold as one atom
SpellAtom(atom) ==
  CASE atom = "INV" -> <<"I", "N", "V">>
    [] atom = "ACME" -> <<"A", "C", "M", "E">>
    [] atom = "SEPA" -> <<"S", "E", "P", "A">>
    [] OTHER -> <<atom>>

\* a string of the index as JSON.parse returns it: character by character
RECURSIVE SpellText(_)
SpellText(text) ==
  IF text = <<>> THEN <<>> ELSE SpellAtom(Head(text)) \o SpellText(Tail(text))

\* a number of the index: the importer's hundredths as the matcher's
\* thousandths
JsonNumber(amount) == IF amount = NullNum THEN NullNum ELSE Num(amount[1] * 10)

JsonDirection(direction) ==
  CASE direction = "credit" -> StrCredit
    [] direction = "debit" -> StrDebit
    [] OTHER -> Null

\* one entry of operations-index.json as the matcher reads it
ReadIndexEntry(entry) ==
  Entry(SpellText(entry.statementId), SpellText(entry.sequence),
        SpellText(entry.bookingDate), SpellText(entry.valueDate),
        JsonNumber(entry.amount), JsonDirection(entry.direction),
        SpellText(entry.communication), SpellText(entry.orderReference),
        SpellText(entry.bankReference), SpellText(entry.counterpartyName))

ReadIndex(entries) == [i \in 1..Len(entries) |-> ReadIndexEntry(entries[i])]

\* the index the importer emits for the one statement of a finished parse
PipelineIndex(st) ==
  ReadIndex(IndexEntriesOf(StatementOf(st) @@ [outputPath |-> TargetPathOf(StatementOf(st))]))

\* the lines of one document: an optional booking date line, the opening
\* line of operation 0015, an optional detail line, an optional value line
PipelineDates == {<<>>, <<LnBookingDate>>, <<LnBookingDateDec>>}

PipelineDetails == {<<>>, <<LnCommunication>>, <<LnResidual>>}

PipelineValues == {<<>>, <<LnValueCredit>>, <<LnValueDebitYear>>, <<LnValueThousands>>}

PipelineLines(date, detail, value) ==
  <<LnIban, LnHeader>> \o date \o <<LnOpA>> \o detail \o value

StrNumber220006 == <<"2", "2", "0", "0", "0", "6">>

\* {number: '220006', amount: 1500.00, balance: 0, invoiceDate: '2024-04-01'}
InvoicePaid ==
  [amount |-> Num(1500000), balance |-> Num(0),
   invoice_date |-> DateInvoice, due_date |-> Null,
   invoice_number |-> Null, number |-> StrNumber220006, client |-> Client(Null, Null)]

PipelineInvoices ==
  {InvoicePaid,
   [InvoicePaid EXCEPT !.balance = Num(1500000)],
   [InvoicePaid EXCEPT !.invoice_date = Null, !.due_date = DateMinus7]}

\* the matcher before main has loaded the index
MatcherWaiting(invoice) == [MatcherStart(invoice, <<>>) EXCEPT !.pc = "wait"]

PipelineInit ==
  /\ parser \in {ParserStart(PipelineLines(d, c, v), ContextPdf) :
                   d \in PipelineDates, c \in PipelineDetails, v \in PipelineValues}
  /\ matcher \in {MatcherWaiting(invoice) : invoice \in PipelineInvoices}
  /\ ImporterUnused
  /\ calc = Unused
  /\ ToolsUnused

\* the importer has returned the statement: the index is emitted, and the
\* matcher's main reads it back and calls findMatchesForInvoice
EmitAndLoadIndex ==
  /\ parser.pc = "done"
  /\ matcher.pc = "wait"
  /\ matcher' = MatcherStart(matcher.invoice, PipelineIndex(parser))
  /\ UNCHANGED <<parser, importerVars, calc, toolVars>>

PipelineNext ==
  \/ ParserNext
  \/ EmitAndLoadIndex
  \/ MatcherNext

PipelineSpec == PipelineInit /\ [][PipelineNext]_vars
\* ------------------------------------------------------------------------
\* Specification of one GoCardless client: API calls started through
\* authorisedRequest, each suspended at its awaits, and resetAccessToken
\* ------------------------------------------------------------------------
\* API calls started on the client
MaxCalls == 3

\* calls of resetAccessToken
MaxResets == 1

\* response.data.access of the n-th answered token exchange
AccessTokenOf(n) == <<"access", DigitChar(n)>>

IdleCall == [pc |-> "idle", token |-> Null]

\* createGocardlessClient: let accessToken = null; tokenRequests counts the
\* POST /token/new/ issued since creation or the last reset, answered those
\* answered so far
ClientInit ==
  /\ client = [accessToken |-> Null, calls |-> [c \in 1..MaxCalls |-> IdleCall],
               tokenRequests |-> 0, answered |-> 0, resets |-> 0]
  /\ parser = ParserUnused
  /\ ImporterUnused
  /\ matcher = Unused
  /\ calc = Unused
  /\ store = Unused
  /\ script = Unused

\* authorisedRequest up to its first suspension: ensureAccessToken returns
\* the cached token, or posts the secrets and awaits the answer
BeginRequest(cl, c) ==
  IF cl.accessToken # Null
  THEN [cl EXCEPT !.calls[c] = [pc |-> "requesting", token |-> cl.accessToken]]
  ELSE [cl EXCEPT !.calls[c] = [pc |-> "exchanging", token |-> Null],
                  !.tokenRequests = @ + 1]

AuthorisedRequest ==
  /\ \E c \in 1..MaxCalls :
       /\ client.calls[c].pc = "idle"
       /\ client' = BeginRequest(client, c)
  /\ UNCHANGED <<parser, importerVars, matcher, calc, store, script>>

\* the token exchange is answered: accessToken is assigned and the API
\* request goes out with it, or the exchange failed and the call throws
TokenGranted(cl, c) ==
  [cl EXCEPT !.accessToken = AccessTokenOf(cl.answered + 1),
             !.answered = @ + 1,
             !.calls[c] = [pc |-> "requesting", token |-> AccessTokenOf(cl.answered + 1)]]

TokenRefused(cl, c) == [cl EXCEPT !.calls[c].pc = "failed"]

TokenExchangeAnswered ==
  /\ \E c \in 1..MaxCalls :
       /\ client.calls[c].pc = "exchanging"
       /\ client' \in {TokenGranted(client, c), TokenRefused(client, c)}
  /\ UNCHANGED <<parser, importerVars, matcher, calc, store, script>>

\* the API request is answered: response.data is returned, or the call throws
RequestAnswered ==
  /\ \E c \in 1..MaxCalls :
       /\ client.calls[c].pc = "requesting"
       /\ \E outcome \in {"done", "failed"} :
            client' = [client EXCEPT !.calls[c].pc = outcome]
  /\ UNCHANGED <<parser, importerVars, matcher, calc, store, script>>

\* resetAccessToken() { accessToken = null }
ResetAccessToken ==
  /\ client.resets < MaxResets
  /\ client' = [client EXCEPT !.accessToken = Null, !.tokenRequests = 0,
                              !.resets = @ + 1]
  /\ UNCHANGED <<parser, importerVars, matcher, calc, store, script>>

ClientNext ==
  \/ AuthorisedRequest
  \/ TokenExchangeAnswered
  \/ RequestAnswered
  \/ ResetAccessToken

ClientSpec == ClientInit /\ [][ClientNext]_vars
\* ------------------------------------------------------------------------
\* Specification of the snapshot store: saveStatements and
\* getLatestStatements on the statements directory, with a clock
\* ------------------------------------------------------------------------
\* ticks of the clock
MaxClock == 2

\* the characters of the file names, in the order of their UTF-16 code units
CodeOrder ==
  <<"-", ".", "0", "1", "2", "3", "4", "5", "6", "7", "8", "9", "T", "Z", "_",
    "a", "b", "c", "d", "e", "f", "g", "h", "i", "j", "k", "l", "m",
    "n", "o", "p", "q", "r", "s", "t", "u", "v", "w", "x", "y", "z">>

CharCode(c) == CHOOSE i \in 1..Len(CodeOrder) : CodeOrder[i] = c

\* a < b for two strings, as Array.prototype.sort without comparator orders
\* them
RECURSIVE TextBefore(_, _)
TextBefore(a, b) ==
  IF a = <<>> THEN b # <<>>
  ELSE IF b = <<>> THEN FALSE
  ELSE IF Head(a) = Head(b) THEN TextBefore(Tail(a), Tail(b))
  ELSE CharCode(Head(a)) < CharCode(Head(b))

DotJson == <<".", "j", "s", "o", "n">>

PrefixArgenta == <<"s", "t", "a", "t", "e", "m", "e", "n", "t", "s", "_", "a", "r", "g", "e", "n", "t", "a">>

PrefixBelfius == <<"s", "t", "a", "t", "e", "m", "e", "n", "t", "s", "_", "b", "e", "l", "f", "i", "u", "s">>

StatementPrefixes == {PrefixArgenta, PrefixBelfius}

\* a file of the directory that no save has written
NotesFile == <<"n", "o", "t", "e", "s", ".", "t", "x", "t">>

\* new Date().toISOString() with ':' replaced by '-', at tick now
IsoTimestamp(now) ==
  <<"2", "0", "2", "4", "-", "0", "4", "-", "0", "1", "T", "1", "0", "-", "0", "0", "-">> \o TwoDigits(now) \o <<".", "0", "0", "0", "Z">>

\* Date.now() at tick now, in milliseconds
EpochMillis(now) == <<"1", "7", "1", "1", "9", "6", "5", "6">> \o TwoDigits(now) \o <<"0", "0", "0">>

buildFileName(prefix, now) ==
  prefix \o <<"_">> \o IsoTimestamp(now) \o <<"_">> \o EpochMillis(now) \o DotJson

\* path.join(STATEMENT_ROOT, file)
StatementPath(file) == <<"data/statements/">> \o file

EndsWithJson(file) == Len(file) >= Len(DotJson) /\ SliceLast(file, Len(DotJson)) = DotJson

JsonFiles(names) == {file \in names : EndsWithJson(file)}

\* jsonFiles.sort().reverse()[0]
LastSorted(jsonFiles) ==
  CHOOSE file \in jsonFiles : \A other \in jsonFiles : other = file \/ TextBefore(other, file)

getLatestJson(names) ==
  IF JsonFiles(names) = {} THEN Null ELSE StatementPath(LastSorted(JsonFiles(names)))

\* no call of getLatestStatements since the last save
NotAsked == <<>>

StoreInit ==
  /\ store \in {[files |-> present, now |-> 0, saved |-> Null, latest |-> NotAsked] :
                  present \in {{}, {NotesFile}}}
  /\ parser = ParserUnused
  /\ ImporterUnused
  /\ matcher = Unused
  /\ calc = Unused
  /\ client = Unused
  /\ script = Unused

\* time passes
ClockTick ==
  /\ store.now < MaxClock
  /\ store' = [store EXCEPT !.now = @ + 1]
  /\ UNCHANGED <<parser, importerVars, matcher, calc, client, script>>

\* saveStatements(prefix, payload): persistJson writes the file and returns
\* its path
SaveStatements ==
  /\ \E prefix \in StatementPrefixes :
       store' = [store EXCEPT !.files = @ \cup {buildFileName(prefix, store.now)},
                              !.saved = StatementPath(buildFileName(prefix, store.now)),
                              !.latest = NotAsked]
  /\ UNCHANGED <<parser, importerVars, matcher, calc, client, script>>

\* getLatestStatements(), as fetch-statements --local calls it
GetLatestStatements ==
  /\ store' = [store EXCEPT !.latest = getLatestJson(store.files)]
  /\ UNCHANGED <<parser, importerVars, matcher, calc, client, script>>

StoreNext ==
  \/ ClockTick
  \/ SaveStatements
  \/ GetLatestStatements

StoreSpec == StoreInit /\ [][StoreNext]_vars
\* ------------------------------------------------------------------------
\* Specification of one run of an Invoice Ninja script: apply-credit-payments,
\* pay-invoices or create-credit-notes, suspended at each API call it awaits
\* ------------------------------------------------------------------------
\* command-line arguments of a run
MaxArgs == 3

ApplyCreditPayments == "apply-credit-payments"
PayInvoices == "pay-invoices"
CreateCreditNotes == "create-credit-notes"
ScriptNames == {ApplyCreditPayments, PayInvoices, CreateCreditNotes}

Dashes == <<"-", "-">>
ArgApply == Dashes \o <<"apply">>
ArgInsecure == Dashes \o <<"insecure">>
ArgInvoice == Dashes \o <<"invoice">>

\* the invoice numbers pay-invoices settles
TARGET_INVOICES ==
  << <<"250004">>, <<"250001">>, <<"240010">>, <<"240005">>, <<"240002">>,
     <<"230025">>, <<"230022">>, <<"230011">>, <<"220059">>, <<"220049">>,
     <<"220038">> >>

\* arguments a run is started with
ArgPool ==
  {ArgApply, ArgInsecure, ArgInvoice, <<"250004">>,
   <<"180784", "=", "110062">>, <<"=", "110062">>}

RECURSIVE ArgvsOfLength(_)
ArgvsOfLength(n) ==
  IF n = 0 THEN {<<>>}
  ELSE {Append(argv, arg) : argv \in ArgvsOfLength(n - 1), arg \in ArgPool}

Argvs == UNION {ArgvsOfLength(n) : n \in 0..MaxArgs}

\* the separator parsePair splits on
PairSeparator(token) ==
  IF Includes(token, <<"=">>) THEN "=" ELSE IF Includes(token, <<":">>) THEN ":" ELSE ""

\* parsePair of apply-credit-payments: invoiceNumber of the pair, or null
parsePair(token) ==
  IF PairSeparator(token) = "" THEN Null
  ELSE IF SplitOn(token, PairSeparator(token))[1] = <<>>
          \/ SplitOn(token, PairSeparator(token))[2] = <<>> THEN Null
  ELSE Trim(SplitOn(token, PairSeparator(token))[1])

NoOptions ==
  [apply |-> FALSE, insecure |-> FALSE, invoice |-> Null, positional |-> <<>>,
   exit |-> FALSE]

\* the loop of parseArgs from argv[i] on (i is 1-based)
RECURSIVE parseArgsFrom(_, _, _, _)
parseArgsFrom(name, argv, i, opts) ==
  IF i > Len(argv) THEN opts
  ELSE IF argv[i] = ArgApply
    THEN parseArgsFrom(name, argv, i + 1, [opts EXCEPT !.apply = TRUE])
  ELSE IF name = PayInvoices /\ argv[i] = ArgInvoice
    THEN parseArgsFrom(name, argv, i + 2,
           [opts EXCEPT !.invoice = IF i + 1 <= Len(argv) THEN argv[i + 1] ELSE Null])
  ELSE IF argv[i] = ArgInsecure
    THEN parseArgsFrom(name, argv, i + 1, [opts EXCEPT !.insecure = TRUE])
  ELSE IF name = PayInvoices \/ StartsWith(argv[i], Dashes)
    THEN parseArgsFrom(name, argv, i + 1, opts)
  ELSE IF name = CreateCreditNotes
    THEN parseArgsFrom(name, argv, i + 1,
           [opts EXCEPT !.positional = Append(@, argv[i])])
  ELSE IF parsePair(argv[i]) = Null THEN [opts EXCEPT !.exit = TRUE]
  ELSE parseArgsFrom(name, argv, i + 1,
         [opts EXCEPT !.positional = Append(@, parsePair(argv[i]))])

parseArgs(name, argv) == parseArgsFrom(name, argv, 1, NoOptions)

\* the invoices the loop of main goes through; the entries of
\* TARGET_INVOICES are distinct, so the --invoice filter keeps at most one
ScriptTargets(name, opts) ==
  IF name # PayInvoices THEN opts.positional
  ELSE IF opts.invoice = Null THEN TARGET_INVOICES
  ELSE IF \E k \in 1..Len(TARGET_INVOICES) : TARGET_INVOICES[k] = opts.invoice
    THEN <<opts.invoice>>
  ELSE <<>>

\* the API calls a run can issue
InvoiceLookup == [method |-> "GET", resource |-> "invoices"]
PaymentCreation == [method |-> "POST", resource |-> "payments"]
CreditNoteCreation == [method |-> "POST", resource |-> "invoices"]

\* invoice.balance as the API reports it, in thousandths
Balances == {-5000, 0, 4, 15, 120000}

\* answers to GET /api/v1/invoices?invoice_number=...
LookupAnswers ==
  {[kind |-> k, balance |-> 0] : k \in {"throws", "none"}}
    \cup {[kind |-> "invoice", balance |-> b] : b \in Balances}

\* a script about to run with the arguments argv
ScriptStart(name, argv) ==
  [name |-> name, argv |-> argv, pc |-> "start", options |-> NoOptions,
   targets |-> <<>>, index |-> 1, amount |-> 0, calls |-> <<>>]

ScriptInit ==
  /\ \E name \in ScriptNames, argv \in Argvs : script = ScriptStart(name, argv)
  /\ parser = ParserUnused
  /\ ImporterUnused
  /\ matcher = Unused
  /\ calc = Unused
  /\ client = Unused
  /\ store = Unused

\* main up to its first await: parseArgs, then the loop is entered, or the
\* process exits for a bad pair or an empty list of invoices
Started(sc) ==
  IF parseArgs(sc.name, sc.argv).exit
     \/ ScriptTargets(sc.name, parseArgs(sc.name, sc.argv)) = <<>>
  THEN [sc EXCEPT !.pc = "exited", !.options = parseArgs(sc.name, sc.argv)]
  ELSE [sc EXCEPT !.pc = "lookup", !.options = parseArgs(sc.name, sc.argv),
                  !.targets = ScriptTargets(sc.name, parseArgs(sc.name, sc.argv))]

StartScript ==
  /\ script.pc = "start"
  /\ script' = Started(script)
  /\ UNCHANGED <<parser, importerVars, matcher, calc, client, store>>

\* axios.get / axios.post is called
Logged(sc, call) == [sc EXCEPT !.calls = Append(@, call)]

\* continue: the next invoice of the loop, or the loop ends
NextTarget(sc) ==
  [sc EXCEPT !.index = @ + 1, !.amount = 0,
             !.pc = IF sc.index + 1 > Len(sc.targets) THEN "done" ELSE "lookup"]

\* apply-credit-payments after fetchInvoice, up to the next await
ApplyCreditPaymentsLookup(sc, answer) ==
  IF answer.kind # "invoice" THEN NextTarget(sc)
  ELSE IF roundCurrency(Abs(answer.balance)) <= 0 THEN NextTarget(sc)
  ELSE IF ~ sc.options.apply THEN NextTarget(sc)
  ELSE [sc EXCEPT !.pc = "payment", !.amount = roundCurrency(Abs(answer.balance))]

\* pay-invoices after fetchInvoice: the lookup is outside any try, so a
\* failed lookup ends the run
PayInvoicesLookup(sc, answer) ==
  IF answer.kind = "throws" THEN [sc EXCEPT !.pc = "failed"]
  ELSE IF answer.kind = "none" THEN NextTarget(sc)
  ELSE IF roundCurrency(answer.balance) <= 10 THEN NextTarget(sc)
  ELSE IF sc.options.apply
    THEN [sc EXCEPT !.pc = "payment", !.amount = roundCurrency(answer.balance)]
  ELSE NextTarget(sc)

\* faulty variant of CreateCreditNotesLookup: the dry-run branch is missing
CreateCreditNotesLookupNoDryRun(sc, answer) ==
  IF answer.kind # "invoice" THEN NextTarget(sc)
  ELSE [sc EXCEPT !.pc = "credit", !.amount = roundCurrency(Abs(answer.balance))]

\* create-credit-notes after fetchInvoice, up to the next await
CreateCreditNotesLookup(sc, answer) ==
  IF answer.kind # "invoice" THEN NextTarget(sc)
  ELSE IF ~ sc.options.apply THEN NextTarget(sc)
  ELSE [sc EXCEPT !.pc = "credit", !.amount = roundCurrency(Abs(answer.balance))]

\* fetchInvoice of the current invoice is answered
FetchInvoice ==
  /\ script.pc = "lookup"
  /\ \E answer \in LookupAnswers :
       script' =
         CASE script.name = ApplyCreditPayments ->
                ApplyCreditPaymentsLookup(Logged(script, InvoiceLookup), answer)
           [] script.name = PayInvoices ->
                PayInvoicesLookup(Logged(script, InvoiceLookup), answer)
           [] script.name = CreateCreditNotes ->
                CreateCreditNotesLookup(Logged(script, InvoiceLookup), answer)
  /\ UNCHANGED <<parser, importerVars, matcher, calc, client, store>>

\* create-credit-notes once the credit note exists: the payment follows
\* unless nothing is outstanding
CreditReady(sc) ==
  IF sc.amount <= 0 THEN NextTarget(sc) ELSE [sc EXCEPT !.pc = "payment"]

\* createCreditInvoice is answered: created, refused with 422 for a
\* duplicate invoice_number, or failed otherwise
CreateCreditInvoice ==
  /\ script.pc = "credit"
  /\ \E outcome \in {"created", "duplicate", "error"} :
       script' =
         CASE outcome = "created" -> CreditReady(Logged(script, CreditNoteCreation))
           [] outcome = "duplicate" ->
                [Logged(script, CreditNoteCreation) EXCEPT !.pc = "existing"]
           [] outcome = "error" -> NextTarget(Logged(script, CreditNoteCreation))
  /\ UNCHANGED <<parser, importerVars, matcher, calc, client, store>>

\* the lookup of the credit number after a duplicate is answered
FetchExistingCredit ==
  /\ script.pc = "existing"
  /\ \E answer \in LookupAnswers :
       script' = IF answer.kind = "invoice"
                 THEN CreditReady(Logged(script, InvoiceLookup))
                 ELSE NextTarget(Logged(script, InvoiceLookup))
  /\ UNCHANGED <<parser, importerVars, matcher, calc, client, store>>

\* createPayment is answered; a failure is logged and the loop goes on
CreatePayment ==
  /\ script.pc = "payment"
  /\ script' = NextTarget(Logged(script, PaymentCreation))
  /\ UNCHANGED <<parser, importerVars, matcher, calc, client, store>>

ScriptNext ==
  \/ StartScript
  \/ FetchInvoice
  \/ CreateCreditInvoice
  \/ FetchExistingCredit
  \/ CreatePayment

ScriptSpec == ScriptInit /\ [][ScriptNext]_vars

\* ------------------------------------------------------------------------
\* Properties of the statement parser (checked under ParserSpec)
\* ------------------------------------------------------------------------
HasIbanLine(lines) == \E i \in 1..Len(lines) : isPotentialIbanLine(lines[i])

HasOperationsHeader(lines) == \E i \in 1..Len(lines) : IsOperationsHeader(lines[i])

\* C2: a parse ends in an error exactly when the normalized lines hold no
\* IBAN-shaped account line or no operations-header line; the error carries no
\* statement, and every other parse runs on to return a statement.
C2_ParseFailsIffAnchorOrHeaderMissing ==
  /\ parser.pc = "failed" =>
       /\ ~ HasIbanLine(parser.lines) \/ ~ HasOperationsHeader(parser.lines)
       /\ parser.error \in {ErrNoIban, ErrNoHeader}
       /\ parser.operations = <<>>
  /\ parser.pc \in {"skip", "outer", "detail", "fallback", "build", "return", "done"} =>
       /\ HasIbanLine(parser.lines) /\ HasOperationsHeader(parser.lines)
       /\ parser.error = Null
  /\ parser.pc = "header" => HasIbanLine(parser.lines)
  /\ parser.pc = "meta" =>
       (parseStatement(parser.lines, parser.context).ok
          <=> HasIbanLine(parser.lines) /\ HasOperationsHeader(parser.lines))

\* an account line is present, the operations header is not, and the parse
\* has failed on the header
C2_Witness ==
  /\ parser.pc = "failed"
  /\ parser.error = ErrNoHeader
  /\ HasIbanLine(parser.lines)

\* the amount of an operation built from a value line, in hundredths
AmountOf(op) == op.amount[1]

FromValueLine(op) == op.rawDetails.valueLine # Null

SignOf(op) == LastOf(op.rawDetails.valueLine)

\* C8 as stated: an operation built from a value line is a credit exactly
\* when its amount is positive, and a debit only when its amount is negative.
C8_CreditIffPositive ==
  \A i \in 1..Len(parser.operations) :
    FromValueLine(parser.operations[i]) =>
      /\ parser.operations[i].direction = "credit"
           <=> AmountOf(parser.operations[i]) > 0
      /\ parser.operations[i].direction = "debit"
           => AmountOf(parser.operations[i]) < 0

DirectionFollowsSign(op) ==
  /\ op.amount # NullNum
  /\ op.direction \in {"credit", "debit"}
  /\ op.direction = "credit" <=> SignOf(op) = "+"
  /\ op.direction = "debit" <=> SignOf(op) = "-"
  /\ AmountOf(op) > 0 => op.direction = "credit"
  /\ AmountOf(op) < 0 => op.direction = "debit"

\* C8 amended: an operation built from a value line takes its direction from
\* the sign character ('+' credit, '-' debit); a positive amount is always a
\* credit and a negative amount always a debit, and an amount of 0 keeps the
\* direction of its sign.
C8_DirectionFollowsSign ==
  \A i \in 1..Len(parser.operations) :
    FromValueLine(parser.operations[i]) => DirectionFollowsSign(parser.operations[i])

\* a returned statement holds a credit of amount 0
C8_Witness ==
  /\ parser.pc = "done"
  /\ \E i \in 1..Len(parser.operations) :
       /\ FromValueLine(parser.operations[i])
       /\ parser.operations[i].direction = "credit"
       /\ AmountOf(parser.operations[i]) = 0

\* C9: in a returned statement every sequence is a 4-character code opening
\* with '0', and no two operations carry the same sequence.
C9_SequenceUnique ==
  parser.pc = "done" =>
    /\ \A i \in 1..Len(parser.operations) :
         /\ Len(parser.operations[i].sequence) = 4
         /\ parser.operations[i].sequence[1] = "0"
    /\ \A i, j \in 1..Len(parser.operations) :
         i # j => parser.operations[i].sequence # parser.operations[j].sequence

PushedOperation(next) == next.operations[Len(next.operations)]

IsPdfEntry(entry) == entry.isPdf

\* the documents of one archive, in the order of its entries
DocumentsOfZip(zip) ==
  [i \in 1..Len(SelectSeq(zip.entries, IsPdfEntry)) |->
     [lines |-> SelectSeq(zip.entries, IsPdfEntry)[i].lines,
      context |-> [source |-> "zip", originPath |-> zip.zipPath,
                   entryName |-> SelectSeq(zip.entries, IsPdfEntry)[i].entryName]]]

RECURSIVE DocumentsOfZips(_)
DocumentsOfZips(zips) ==
  IF zips = <<>> THEN <<>>
  ELSE DocumentsOfZip(Head(zips)) \o DocumentsOfZips(Tail(zips))

DocumentsOfPdfs(pdfs) ==
  [i \in 1..Len(pdfs) |->
     [lines |-> pdfs[i].lines,
      context |-> [source |-> "pdf", originPath |-> pdfs[i].pdfPath, entryName |-> Null]]]

\* the source documents of the batch, in processing order
AllDocuments ==
  DocumentsOfZips(collections.zipFiles) \o DocumentsOfPdfs(collections.pdfFiles)

ParseOf(doc) == parseStatement(doc.lines, doc.context)

\* failure is the failure-list entry of doc
IsFailureOf(failure, doc) ==
  /\ failure.source = doc.context.source
  /\ IF failure.source = "zip"
     THEN failure.zipPath = doc.context.originPath
          /\ failure.entryName = doc.context.entryName
     ELSE failure.pdfPath = doc.context.originPath

HasFailure(doc) == \E k \in 1..Len(failures) : IsFailureOf(failures[k], doc)

HasFailureWith(doc, error) ==
  \E k \in 1..Len(failures) : IsFailureOf(failures[k], doc) /\ failures[k].error = error

IsStatementOf(statement, doc) ==
  /\ statement.source.type = doc.context.source
  /\ statement.source.originPath = doc.context.originPath
  /\ statement.source.entryName = doc.context.entryName

HasStatement(doc) ==
  \E k \in 1..Len(processedStatements) : IsStatementOf(processedStatements[k], doc)

NextDocument ==
  IF pc = "zip" /\ entryCursor < Len(CurrentZip.entries)
  THEN IF CurrentZip.entries[entryCursor + 1].isPdf
       THEN <<[lines |-> CurrentZip.entries[entryCursor + 1].lines,
               context |-> [source |-> "zip", originPath |-> CurrentZip.zipPath,
                            entryName |-> CurrentZip.entries[entryCursor + 1].entryName]]>>
       ELSE <<>>
  ELSE IF /\ pc = "main"
          /\ zipCursor = Len(collections.zipFiles)
          /\ pdfCursor < Len(collections.pdfFiles)
  THEN <<[lines |-> collections.pdfFiles[pdfCursor + 1].lines,
          context |-> [source |-> "pdf",
                       originPath |-> collections.pdfFiles[pdfCursor + 1].pdfPath,
                       entryName |-> Null]]>>
  ELSE <<>>

\* the next document parses and its artifact is already in the output
\* directory
NextTargetExists ==
  /\ NextDocument # <<>>
  /\ ParseOf(NextDocument[1]).ok
  /\ existsSync(files, TargetPathOf(ParseOf(NextDocument[1]).statement))

\* failures and statements recorded so far in the run, the archive being
\* read included
AllFailures == failures \o zipResults.failures

AllStatements == processedStatements \o zipResults.statements

DocumentsDone == entryCursor + pdfCursor

\* C3: when the artifact of the document being processed exists and
\* overwrite is off, the step leaves the output directory as it is, records
\* one more failure (the refused write) and no statement, and moves on to the
\* next document; and no step replaces or removes a per-statement artifact
\* unless overwrite is on.
C3_NoSilentOverwrite ==
  [][ /\ (NextTargetExists /\ ~ options.overwrite) =>
           /\ files' = files
           /\ Len(AllFailures') = Len(AllFailures) + 1
           /\ IsFailureOf(AllFailures'[Len(AllFailures')], NextDocument[1])
           /\ AllFailures'[Len(AllFailures')].error = ErrExists
           /\ AllStatements' = AllStatements
           /\ DocumentsDone' = DocumentsDone + 1
           /\ pc' = pc
      /\ \A f \in files :
           (f.path # IndexPath /\ f \notin files') => options.overwrite
      /\ (NextTargetExists /\ options.overwrite) =>
           readFile(files', TargetPathOf(ParseOf(NextDocument[1]).statement))
             = ParseOf(NextDocument[1]).statement ]_vars

\* a run without overwrite has ended: the write of an archive document was
\* refused, the artifact that was there is intact, and a later document was
\* imported
C3_Witness ==
  /\ pc = "exited"
  /\ ~ options.overwrite
  /\ readFile(files, IdOfDocA \o <<JsonSuffix>>) = OldArtifact
  /\ \E k \in 1..Len(failures) :
       failures[k].source = "zip" /\ failures[k].error = ErrExists
  /\ \E k \in 1..Len(processedStatements) :
       processedStatements[k].source.type = "pdf"

\* C4: at the end of a run no two imported statements that contribute
\* entries to the index carry the same statementId.
C4_StatementIdUnique ==
  pc = "exited" =>
    \A i, j \in 1..Len(processedStatements) :
      ( /\ i # j
        /\ processedStatements[i].operations # <<>>
        /\ processedStatements[j].operations # <<>> )
        => processedStatements[i].statementId # processedStatements[j].statementId

\* the index holds an entry for operation op of statement
InIndex(fs, statement, op) ==
  \E k \in 1..Len(ExistingIndexOperations(fs)) :
    /\ ExistingIndexOperations(fs)[k].statementId = statement.statementId
    /\ ExistingIndexOperations(fs)[k].sequence = op.sequence

\* C5: the index written by a run holds the operations of every document the
\* run parsed successfully.
C5_IndexHoldsEveryParsedStatement ==
  (pc = "exited" /\ processedStatements # <<>>) =>
    \A i \in 1..Len(AllDocuments) :
      ParseOf(AllDocuments[i]).ok =>
        \A n \in 1..Len(ParseOf(AllDocuments[i]).statement.operations) :
          InIndex(files, ParseOf(AllDocuments[i]).statement,
                  ParseOf(AllDocuments[i]).statement.operations[n])

\* C6: the index content at the end of a run equals the index content at the
\* end of the run before it on the same batch with the same flag, whatever
\* the output directory held at first.
C6_RerunLeavesIndexIdentical ==
  \A r \in 2..Len(indexAtExit) : indexAtExit[r] = indexAtExit[r - 1]

\* two runs with overwrite have ended, each of which imported statements and
\* wrote an index with entries
C6_Witness ==
  /\ pc = "exited"
  /\ runs = 2
  /\ options.overwrite
  /\ processedStatements # <<>>
  /\ indexAtExit[2] # Absent
  /\ indexAtExit[2].operations # <<>>

ValueLineParsed == calc.fn = "parseValueLine" /\ calc.done

\* the year the result's value date starts with, as a number
ResultYear == ParseInt(SubSeq(calc.result.valueDate, 1, 4))

\* C11: for a value line without a year, parsed with a booking date of month
\* M_b, the year of the value date is the booking year plus one when
\* M_v - M_b < -6, the booking year minus one when M_v - M_b > 6, and the
\* booking year otherwise; a value line with an explicit year yields that year.
C11_InferredYearRule ==
  ValueLineParsed =>
    /\ calc.yearMaybe # <<>> =>
         /\ calc.result.valueDate # Null
         /\ SubSeq(calc.result.valueDate, 1, 4) = calc.yearMaybe
    /\ (calc.yearMaybe = <<>> /\ calc.bookingDate # Null) =>
         /\ calc.result.valueDate # Null
         /\ calc.valueMonth - calc.bookingMonth < -6 =>
              ResultYear = calc.bookingYear + 1
         /\ calc.valueMonth - calc.bookingMonth > 6 =>
              ResultYear = calc.bookingYear - 1
         /\ (calc.valueMonth - calc.bookingMonth) \in -6..6 =>
              ResultYear = calc.bookingYear

\* a January value line booked in December: the year rolled forward
C11_Witness ==
  /\ ValueLineParsed
  /\ calc.yearMaybe = <<>>
  /\ calc.bookingDate # Null
  /\ calc.valueMonth = 1 /\ calc.bookingMonth = 12
  /\ ResultYear = calc.bookingYear + 1

\* ------------------------------------------------------------------------
\* Claims about the scores
\* ------------------------------------------------------------------------
NameScored == calc.fn = "computeNameScore" /\ calc.done

\* accent-stripping: the accented letter becomes its plain letter
StripAccents(s) ==
  [i \in 1..Len(s) |->
     IF s[i] = "e_acute" THEN "e" ELSE IF s[i] = "E_acute" THEN "E" ELSE s[i]]

\* the set of lower-cased, accent-stripped, alphanumeric tokens of a name
AccentFreeTokenSet(name) ==
  IF name = Null THEN {} ELSE TokenSet(tokenize(StripAccents(name)))

\* C18: the name score is the number of tokens (lower-cased, accent-stripped,
\* alphanumeric) that the two names have in common, each one counted once,
\* and 0 when either name has no token.
C18_NameScoreIsIntersectionSize ==
  NameScored =>
    calc.result = Cardinality(AccentFreeTokenSet(calc.invoiceClientName)
                                \cap AccentFreeTokenSet(calc.counterpartyName))

ConfidenceComputed == calc.fn = "computeConfidence" /\ calc.done

\* the rows of the confidence table, in tenths: <<upper limit in days, delta>>
DateRows ==
  <<<<2, 300>>, <<7, 250>>, <<14, 220>>, <<30, 150>>, <<60, 100>>, <<90, 60>>,
    <<120, 40>>>>

\* the delta of the first row whose limit covers the days; beyond the last
\* row +1 minus a tenth per day over 120, the deduction being at most 10
TableDateDelta ==
  IF calc.daysDiff = NullNum THEN 50
  ELSE IF \E k \in 1..Len(DateRows) : calc.daysDiff[1] <= DateRows[k][1]
  THEN DateRows[CHOOSE k \in 1..Len(DateRows) :
                  /\ calc.daysDiff[1] <= DateRows[k][1]
                  /\ \A j \in 1..(k - 1) : calc.daysDiff[1] > DateRows[j][1]][2]
  ELSE IF calc.daysDiff[1] - 120 > 100 THEN 10 - 100
  ELSE 10 - (calc.daysDiff[1] - 120)

TableRefDelta == <<0, 80, 120, 150>>[calc.refScore + 1]

TableNameDelta ==
  IF calc.nameScore >= 3 THEN 100 ELSE <<-20, 60, 80>>[calc.nameScore + 1]

TablePartialDelta ==
  IF calc.targetLabel = LabelPartialPayment THEN -50 ELSE 0

TableScore == 500 + TableDateDelta + TableRefDelta + TableNameDelta + TablePartialDelta

\* C19: computeConfidence returns an integer from 10 to 99, the sum of the
\* base 50 and the table's deltas for the date, the reference score, the name
\* score and the partial-payment target, rounded to the nearest integer and
\* clamped to that range.
C19_ConfidenceFollowsTable ==
  ConfidenceComputed =>
    /\ calc.result \in 10..99
    /\ \E n \in 0..120 :
         /\ 10 * n - 5 <= TableScore /\ TableScore < 10 * n + 5
         /\ calc.result = (IF n < 10 THEN 10 ELSE IF n > 99 THEN 99 ELSE n)

\* a call 50 days past the window with reference score 1: 51 - 5 + 8 - 2
C19_Witness ==
  /\ ConfidenceComputed
  /\ calc.daysDiff = Num(170) /\ calc.refScore = 1 /\ calc.nameScore = 0
  /\ calc.targetLabel = LabelInvoiceAmount
  /\ calc.result = 52

\* C20: a candidate with daysDiff 0 and refScore 3 has a confidence of at
\* least 80, whatever its name score and its target label.
C20_SameDayReferenceAtLeast80 ==
  (ConfidenceComputed /\ calc.daysDiff = Num(0) /\ calc.refScore = 3) =>
    calc.result >= 80

\* the least favourable such call: no name overlap, partial-payment target
C20_Witness ==
  /\ ConfidenceComputed
  /\ calc.daysDiff = Num(0) /\ calc.refScore = 3
  /\ calc.nameScore = 0 /\ calc.targetLabel = LabelPartialPayment
  /\ calc.result = 88

\* ------------------------------------------------------------------------
\* Claims about the ranking
\* ------------------------------------------------------------------------
Ranked == calc.fn = "rank" /\ calc.done

\* a's day difference is smaller; a missing one counts as +infinity
EarlierDay(a, b) ==
  /\ a.daysDiff # NullNum
  /\ b.daysDiff = NullNum \/ a.daysDiff[1] < b.daysDiff[1]

\* a ranks strictly before b
RanksBefore(a, b) ==
  \/ EarlierDay(a, b)
  \/ /\ a.daysDiff = b.daysDiff
     /\ \/ a.refScore > b.refScore
        \/ a.refScore = b.refScore /\ a.nameScore > b.nameScore

CountIn(list, x) == Cardinality({i \in 1..Len(list) : list[i] = x})

\* C12: at most 5 candidates are returned, and they are the first 5 of all
\* candidates in the order ascending daysDiff (a missing one last), then
\* descending refScore, then descending nameScore: the returned list is in
\* that order, holds 5 candidates or all of them, holds only candidates of the
\* list, and no omitted candidate ranks before a returned one.
C12_TopFiveInRankOrder ==
  Ranked =>
    /\ Len(calc.result) <= 5
    /\ Len(calc.result) = (IF Len(calc.candidates) < 5 THEN Len(calc.candidates) ELSE 5)
    /\ \A i, j \in 1..Len(calc.result) :
         i < j => ~ RanksBefore(calc.result[j], calc.result[i])
    /\ \A i \in 1..Len(calc.result) :
         CountIn(calc.result, calc.result[i]) <= CountIn(calc.candidates, calc.result[i])
    /\ \A k \in 1..Len(calc.candidates) :
         CountIn(calc.result, calc.candidates[k]) < CountIn(calc.candidates, calc.candidates[k])
           => \A i \in 1..Len(calc.result) : ~ RanksBefore(calc.candidates[k], calc.result[i])

\* six candidates given in reverse rank order: the dateless one is cut
C12_Witness ==
  /\ Ranked
  /\ calc.candidates = <<RankedDateless, RankedLater, RankedNoReference, RankedNoName,
                         RankedFirstToo, RankedFirst>>
  /\ calc.result = <<RankedFirstToo, RankedFirst, RankedNoName, RankedNoReference,
                     RankedLater>>

\* ------------------------------------------------------------------------
\* Claims about findMatchesForInvoice
\* ------------------------------------------------------------------------
MatcherDone == matcher.pc = "done"

TargetsBuilt == matcher.pc \in {"loop", "sort", "return", "done"}

SameOperation(a, b) ==
  a.operation.statementId = b.operation.statementId
    /\ a.operation.sequence = b.operation.sequence

\* C13: the same operation (same statement and sequence) never appears twice
\* in the list returned for an invoice, also when it matches both targets.
C13_OperationReportedOnce ==
  MatcherDone =>
    \A i, j \in 1..Len(matcher.result) :
      i # j => ~ SameOperation(matcher.result[i], matcher.result[j])

HasTarget(value, label) ==
  \E k \in 1..Len(matcher.targets) :
    matcher.targets[k].value = value /\ matcher.targets[k].label = label

HasTargetLabelled(label) ==
  \E k \in 1..Len(matcher.targets) : matcher.targets[k].label = label

\* amount and balance as the invoice gives them, 0 when unusable
GivenAmount == IF matcher.invoice.amount \in {NullNum, NaN} THEN 0 ELSE matcher.invoice.amount[1]

GivenBalance == IF matcher.invoice.balance \in {NullNum, NaN} THEN 0 ELSE matcher.invoice.balance[1]

\* C14: the targets of every invoice contain its full amount, and contain
\* amount - balance under a label of its own exactly when amount - balance
\* exceeds 0.01.
C14_TargetsFullAndPartial ==
  TargetsBuilt =>
    /\ HasTarget(GivenAmount, LabelInvoiceAmount)
    /\ HasTargetLabelled(LabelPartialPayment) <=> GivenAmount - GivenBalance > 10
    /\ GivenAmount - GivenBalance > 10 =>
         HasTarget(GivenAmount - GivenBalance, LabelPartialPayment)

\* C14 (amended): the targets of an invoice contain its full amount exactly
\* when that amount is greater than 0; they contain amount - balance under a
\* label of its own whenever amount - balance exceeds 0.01 and never when it
\* is below 0.01.
C14_TargetsOfPositiveAmounts ==
  TargetsBuilt =>
    /\ GivenAmount > 0 => HasTarget(GivenAmount, LabelInvoiceAmount)
    /\ GivenAmount <= 0 => ~ HasTargetLabelled(LabelInvoiceAmount)
    /\ GivenAmount - GivenBalance > 10 =>
         HasTarget(GivenAmount - GivenBalance, LabelPartialPayment)
    /\ GivenAmount - GivenBalance < 10 => ~ HasTargetLabelled(LabelPartialPayment)

\* an invoice of 100.00 with a balance of 60.00: the two targets 100.00 and 40.00
C14_Witness ==
  /\ TargetsBuilt
  /\ HasTarget(100000, LabelInvoiceAmount)
  /\ HasTarget(40000, LabelPartialPayment)
  /\ Len(matcher.targets) = 2

\* the loaded operation has an amount equal to the target's, to the cent
AmountMatches(operation, target) ==
  (operation.amount + 5) \div 10 = (target.value + 5) \div 10

HasCandidate(operation, label) ==
  \E k \in 1..Len(matcher.candidates) :
    /\ matcher.candidates[k].operation = operation
    /\ matcher.candidates[k].targetLabel = label

HasDatelessCandidate(operation, label) ==
  \E k \in 1..Len(matcher.candidates) :
    /\ matcher.candidates[k].operation = operation
    /\ matcher.candidates[k].targetLabel = label
    /\ matcher.candidates[k].daysDiff = NullNum

\* the invoice carries none of the dates of the model
InvoiceDateless ==
  matcher.invoice.invoice_date \in {Null, <<>>} /\ matcher.invoice.due_date \in {Null, <<>>}

\* C15: an entry whose amount matches a target and that has no booking or
\* value date, or that meets an invoice without date, is a candidate with
\* daysDiff null, and in the returned list it stands behind every dated
\* candidate.
C15_DatelessEntryIsCandidate ==
  MatcherDone =>
    /\ \A i \in 1..Len(matcher.operations), k \in 1..Len(matcher.targets) :
         (/\ AmountMatches(matcher.operations[i], matcher.targets[k])
          /\ matcher.operations[i].bookingDate = Null \/ InvoiceDateless)
           => HasDatelessCandidate(matcher.operations[i], matcher.targets[k].label)
    /\ \A i, j \in 1..Len(matcher.result) :
         (matcher.result[i].daysDiff = NullNum /\ matcher.result[j].daysDiff # NullNum)
           => j < i

\* the entry of the pool, as loaded, was offered to a target of 100.00 of an
\* invoice dated 2024-04-01
Offered(entry) ==
  /\ \E i \in 1..Len(matcher.operations) : matcher.operations[i] = LoadedOperation(entry)
  /\ HasTarget(100000, LabelInvoiceAmount)
  /\ DateInvoice \in {matcher.invoice.invoice_date, matcher.invoice.due_date}

\* C16: with the window of 120 days, an amount-matching entry 120 days from
\* the invoice date (after it, or before it across a leap day) is a
\* candidate, one 121 days away is not, and no candidate has a daysDiff above
\* the window.
C16_WindowBoundary ==
  MatcherDone =>
    /\ Offered(EntryPlus120) =>
         HasCandidate(LoadedOperation(EntryPlus120), LabelInvoiceAmount)
    /\ Offered(EntryValueDateOnly) =>
         HasCandidate(LoadedOperation(EntryValueDateOnly), LabelInvoiceAmount)
    /\ Offered(EntryPlus121) =>
         ~ \E k \in 1..Len(matcher.candidates) :
             matcher.candidates[k].operation = LoadedOperation(EntryPlus121)
    /\ \A k \in 1..Len(matcher.candidates) :
         matcher.candidates[k].daysDiff # NullNum =>
           matcher.candidates[k].daysDiff[1] <= 120
    /\ \A k \in 1..Len(matcher.result) :
         matcher.result[k].daysDiff # NullNum => matcher.result[k].daysDiff[1] <= 120

\* both boundary entries were offered: the one at 120 days is a candidate
\* with that daysDiff, the one at 121 days is none
C16_Witness ==
  /\ MatcherDone
  /\ Offered(EntryPlus120) /\ Offered(EntryPlus121)
  /\ \E k \in 1..Len(matcher.result) :
       /\ matcher.result[k].operation = LoadedOperation(EntryPlus120)
       /\ matcher.result[k].daysDiff = Num(120)
  /\ \A k \in 1..Len(matcher.candidates) :
       matcher.candidates[k].operation # LoadedOperation(EntryPlus121)

TextOrEmpty(value) == IF value = Null THEN <<>> ELSE value

\* the entry's communication, order reference and bank reference, one after
\* the other, without whitespace and in capitals
ReferenceText(operation) ==
  toUpperCase(RemoveAll(TextOrEmpty(operation.communication)
                          \o <<Space>> \o TextOrEmpty(operation.orderReference)
                          \o <<Space>> \o TextOrEmpty(operation.bankReference),
                        {Space}))

\* the invoice number: invoice_number, or number when that is missing
NumberOfInvoice ==
  IF matcher.invoice.invoice_number \notin {Null, <<>>}
  THEN matcher.invoice.invoice_number
  ELSE TextOrEmpty(matcher.invoice.number)

DigitForm == KeepOnly(NumberOfInvoice, Digits)

StrippedForm == toUpperCase(RemoveAll(NumberOfInvoice, {Space}))

\* text holds the non-empty form
ContainsForm(text, form) == form # <<>> /\ Includes(text, form)

\* C17: the refScore of every candidate is 3 if the normalized concatenation
\* of the entry's communication, order reference and bank reference contains
\* the digits of the invoice number, otherwise 2 if it contains the invoice
\* number without whitespace and in capitals, otherwise 0.  A form is
\* contained only if the invoice number has one: a number without digits has
\* no digit-only form, a missing number no form at all.
C17_RefScoreRule ==
  \A k \in 1..Len(matcher.candidates) :
    matcher.candidates[k].refScore =
      (IF ContainsForm(ReferenceText(matcher.candidates[k].operation), DigitForm) THEN 3
       ELSE IF ContainsForm(ReferenceText(matcher.candidates[k].operation), StrippedForm)
       THEN 2
       ELSE 0)

\* one invoice with a candidate for each score
C17_Witness ==
  /\ MatcherDone
  /\ \E k \in 1..Len(matcher.candidates) : matcher.candidates[k].refScore = 3
  /\ \E k \in 1..Len(matcher.candidates) : matcher.candidates[k].refScore = 2
  /\ \E k \in 1..Len(matcher.candidates) : matcher.candidates[k].refScore = 0
\* ------------------------------------------------------------------------
\* Properties of the operation loop (checked under ParserSpec and
\* ParserFairSpec)
\* ------------------------------------------------------------------------
InOperationLoop == parser.pc \in {"outer", "detail", "fallback", "build", "return", "done"}

\* the line at 0-based position k lies after the operations header
AfterHeader(k) == k > parser.meta.operationsHeaderIndex

\* C26: once the cursor has reached a line after the operations header that
\* begins with 'Solde ', 'Les depots ' or the rule marker, between operations
\* or inside a detail block, the loop ends there: the cursor never moves past
\* such a line, so no later line is read into an operation.
C26_FooterEndsLoop ==
  InOperationLoop =>
    \A k \in 0..(Len(parser.lines) - 1) :
      (AfterHeader(k) /\ IsFooterLine(ItemAt(parser.lines, k))) => parser.index <= k

\* the 0-based position of the first value-line-shaped line at or after from,
\* or -1
NextValueLineIndex(lines, from) ==
  FindIndex({k \in 1..Len(lines) : k > from /\ MatchValueLine(lines[k]).matched})

\* C27: the scan that follows a detail block ended without a value line takes
\* the next value-line-shaped line ahead of the cursor as the operation's
\* value line, and leaves the value line null only when there is none.
C27_FallbackTakesNextValueLine ==
  [][parser.pc = "fallback" =>
       parser'.valueLine =
         ItemAt(parser.lines, NextValueLineIndex(parser.lines, parser.index))]_vars

AtPureDateLine ==
  /\ parser.pc \in {"outer", "detail"}
  /\ parser.index < Len(parser.lines)
  /\ ~ IsFooterLine(LineAt(parser))
  /\ MatchIsoDate(LineAt(parser)).matched

\* C28: a pure date line produces no operation and only updates the booking
\* date context; the context read at an operation's opening line stays in
\* force until the operation is built, date lines inside its detail block
\* included, and is the operation's bookingDate.
C28_BookingDateFromOpeningContext ==
  [][/\ (AtPureDateLine /\ parser.pc = "outer") =>
          /\ parser'.operations = parser.operations
          /\ parser'.pc = "outer"
          /\ parser'.currentBookingDate = toIsoDate(LineAt(parser))
     /\ AtPureDateLine => parser'.operations = parser.operations
     /\ parser.pc \in {"detail", "fallback"} =>
          parser'.currentBookingDate = parser.currentBookingDate
     /\ parser.pc = "build" =>
          PushedOperation(parser').bookingDate = parser.currentBookingDate]_vars

\* the lines one operation was built from: its opening line, its detail
\* lines and its value line
OperationLines(op) ==
  <<[kind |-> "title", sequence |-> op.sequence, title |-> op.title, text |-> Null]>>
  \o [i \in 1..Len(op.rawDetails.detailLines) |->
        [kind |-> "line", sequence |-> Null, title |-> Null,
         text |-> op.rawDetails.detailLines[i]]]
  \o (IF op.rawDetails.valueLine = Null THEN <<>>
      ELSE <<[kind |-> "line", sequence |-> Null, title |-> Null,
              text |-> op.rawDetails.valueLine]>>)

RECURSIVE AssignedLines(_)
AssignedLines(operations) ==
  IF operations = <<>> THEN <<>>
  ELSE OperationLines(Head(operations)) \o AssignedLines(Tail(operations))

IsAssigned(item, line) ==
  IF item.kind = "title"
  THEN /\ MatchOperation(line).matched
       /\ MatchOperation(line).sequence = item.sequence
       /\ MatchOperation(line).title = item.title
  ELSE line = item.text

\* items are taken, in order, from pairwise different positions of lines at
\* or after the 0-based position from
RECURSIVE Embeds(_, _, _)
Embeds(items, lines, from) ==
  IF items = <<>> THEN TRUE
  ELSE IF from >= Len(lines) THEN FALSE
  ELSE IF IsAssigned(Head(items), ItemAt(lines, from))
  THEN Embeds(Tail(items), lines, from + 1)
  ELSE Embeds(items, lines, from + 1)

\* every line of every built operation is a line the cursor has passed, each
\* position used once
EachLineAssignedOnce ==
  InOperationLoop =>
    Embeds(AssignedLines(parser.operations),
           SubSeq(parser.lines, 1, parser.index),
           parser.meta.operationsHeaderIndex + 1)

\* a parse that has not ended has a next step, and the step changes the state
ParserNeverStuck == ~ ParserAtRest => ParserStep(parser) # parser

\* C29: the cursor never moves back, every iteration of the outer loop moves
\* it forward or ends the loop, the lines of the operations are pairwise
\* different lines the cursor has passed, and every started parse comes to an
\* end: it is never stuck and it reaches its return or its throw.
C29_ForwardOnlyCursor ==
  /\ [][/\ parser'.index >= parser.index
        /\ parser.pc = "outer" =>
             (parser'.index > parser.index \/ parser'.pc = "return")]_vars
  /\ [] EachLineAssignedOnce
  /\ [] ParserNeverStuck
  /\ (parser.pc = "meta") ~> ParserHalted(parser)

\* a returned statement whose operation took its title, a detail line and a
\* value line, with the cursor at the end of the lines
C29_Witness ==
  /\ parser.pc = "done"
  /\ Len(parser.operations) = 1
  /\ parser.operations[1].rawDetails.detailLines # <<>>
  /\ FromValueLine(parser.operations[1])
  /\ parser.index = Len(parser.lines)
\* ------------------------------------------------------------------------
\* Properties of the aggregated index (checked under ImporterSpec)
\* ------------------------------------------------------------------------
\* the operations of the statements, statement after statement
RECURSIVE ParsedOperations(_)
ParsedOperations(statements) ==
  IF statements = <<>> THEN <<>>
  ELSE Head(statements).operations \o ParsedOperations(Tail(statements))

\* entry holds every field of op but rawDetails, with the value op has
CarriesOperation(entry, op) ==
  \A f \in (DOMAIN op) \ {"rawDetails"} : f \in DOMAIN entry /\ entry[f] = op[f]

\* C23: after a run that imported a statement, the index holds one entry per
\* parsed operation, statements in processing order and operations in
\* statement order, and each entry carries every field of its operation
\* except rawDetails, additionalDetails and counterpartyCurrency included.
C23_IndexCarriesEveryOperationField ==
  (pc = "exited" /\ processedStatements # <<>>) =>
    /\ Len(ExistingIndexOperations(files)) = Len(ParsedOperations(processedStatements))
    /\ \A i \in 1..Len(ExistingIndexOperations(files)) :
         CarriesOperation(ExistingIndexOperations(files)[i],
                          ParsedOperations(processedStatements)[i])
\* ------------------------------------------------------------------------
\* Outcome of findMatchesForInvoice (checked under MatcherSpec)
\* ------------------------------------------------------------------------
\* the invoice amount is present and numeric
HasUsableAmount(invoice) == parseNumber(invoice.amount) # NullNum

\* C22: for an invoice with a usable amount the call returns, with an empty
\* result when no entry qualified; for an invoice without a usable amount
\* (missing, empty or non-numeric) the call raises instead of returning.
C22_RaisesOnlyForMalformedInvoice ==
  /\ (matcher.pc = "done" /\ HasUsableAmount(matcher.invoice) /\ matcher.candidates = <<>>)
       => matcher.result = <<>>
  /\ ~ HasUsableAmount(matcher.invoice) => matcher.pc # "done"
\* ------------------------------------------------------------------------
\* The end-to-end scenario (checked under PipelineSpec)
\* ------------------------------------------------------------------------
\* the invoice 220006 has been matched against the operation parsed under
\* booking date 2024-04-01 from '04-04 1500,00 +' with 'Communication: INV
\* 220006'
ScenarioMatched ==
  /\ parser.lines = PipelineLines(<<LnBookingDate>>, <<LnCommunication>>, <<LnValueCredit>>)
  /\ matcher.invoice = InvoicePaid
  /\ matcher.pc = "done"

\* C21 as stated: the top candidate of the scenario has refScore 3, a day
\* difference of 3 (measured to the value date 2024-04-04) and a confidence
\* of at least 80.
C21_TopCandidateThreeDays ==
  ScenarioMatched =>
    /\ matcher.result # <<>>
    /\ matcher.result[1].refScore = 3
    /\ matcher.result[1].daysDiff = Num(3)
    /\ matcher.result[1].confidence >= 80

\* C21 amended: the top candidate of the scenario has refScore 3, a day
\* difference of 0 (measured to the booking date 2024-04-01, which the
\* operation carries besides its value date 2024-04-04) and a confidence of
\* at least 80.
C21_TopCandidateSameDay ==
  ScenarioMatched =>
    /\ matcher.result # <<>>
    /\ matcher.result[1].refScore = 3
    /\ matcher.result[1].daysDiff = Num(0)
    /\ matcher.result[1].confidence >= 80
    /\ matcher.result[1].operation.bookingDate = DateInvoice
    /\ matcher.result[1].operation.valueDate # DateInvoice

\* the scenario has run to its end and returned a candidate
C21_Witness ==
  /\ ScenarioMatched
  /\ matcher.result # <<>>
  /\ matcher.result[1].targetLabel = LabelInvoiceAmount
\* ------------------------------------------------------------------------
\* Token exchanges of one client (checked under ClientSpec)
\* ------------------------------------------------------------------------
\* C30: between the creation of the client, or a reset, and the next reset
\* at most one token exchange request is issued, whatever the interleaving of
\* the API calls.
C30_AtMostOneTokenExchange == client.tokenRequests <= 1
\* ------------------------------------------------------------------------
\* The latest saved statements (checked under StoreSpec)
\* ------------------------------------------------------------------------
\* C25: after any saves, with any prefixes, getLatestStatements returns the
\* path of the file written by the most recent save.
C25_LatestIsMostRecentSave ==
  (store.latest # NotAsked /\ store.saved # Null) => store.latest = store.saved
\* ------------------------------------------------------------------------
\* Claim about the dry-run of the Invoice Ninja scripts
\* ------------------------------------------------------------------------
HasApplyFlag(argv) == \E k \in 1..Len(argv) : argv[k] = ArgApply

\* C24: without --apply among the arguments, none of the three scripts
\* issues a payment creation or a credit-note creation for any invoice of
\* the run; every API call it makes is a read-only invoice lookup
C24_DryRunOnlyLooksUp ==
  ~ HasApplyFlag(script.argv) =>
    \A k \in 1..Len(script.calls) : script.calls[k] = InvoiceLookup

\* a dry-run of create-credit-notes that went through two invoices, the
\* last one with an outstanding balance, and is finished
C24_Witness ==
  /\ script.name = CreateCreditNotes
  /\ ~ HasApplyFlag(script.argv)
  /\ script.pc = "done"
  /\ Len(script.targets) = 2
  /\ script.calls = <<InvoiceLookup, InvoiceLookup>>

====
